---------------------------- MODULE Spec2Model ----------------------------
(***************************************************************************)
(* A model of the grin-pool stratum proxy: the upstream session           *)
(* (pool/server.rs), the worker sessions held in the shared registry      *)
(* (pool/worker.rs) and the share record handed to the publisher          *)
(* (pool/kafka/share.rs, pool/kafka/producer.rs).                         *)
(*                                                                         *)
(* Strings are sequences of byte values (ASCII codes).  Numbers that the  *)
(* program keeps in 64-bit fields and that travel through the correlation *)
(* id are decimal numerals: sequences of digits 0..9 without leading      *)
(* zeros (Num), so that values above 2^31 - 1 can be written down.        *)
(***************************************************************************)
EXTENDS Integers, Sequences, FiniteSets, TLC

\* ------------------------------------------------------------------------
\* Bounds of the model
\* ------------------------------------------------------------------------

\* Worker sessions the accept loop creates in one run.
MaxWorkers == 2

\* 'submit' responses processed in one run.
MaxShares == 2

\* Requests written to one upstream socket.
MaxSent == 3

\* Replies written to one worker socket by the worker's own handler.
MaxOut == 1

\* Submissions waiting in one worker's queue.
MaxQueue == 1

\* Messages waiting unread on the inbound sockets at one time.
MaxPending == 2

\* Submissions one worker enqueues while its session lasts.
MaxEnqueued == 2

\* Job messages pushed to one worker.
MaxJobsSent == 1

\* ------------------------------------------------------------------------
\* Strings and numerals
\* ------------------------------------------------------------------------

Range(s) == {s[i] : i \in 1..Len(s)}

\* str::split(sep): the pieces between separators, always at least one.
RECURSIVE SplitAcc(_, _, _, _, _)
SplitAcc(s, sep, i, cur, acc) ==
    IF i > Len(s)
    THEN Append(acc, cur)
    ELSE IF s[i] = sep
         THEN SplitAcc(s, sep, i + 1, <<>>, Append(acc, cur))
         ELSE SplitAcc(s, sep, i + 1, Append(cur, s[i]), acc)

Split(s, sep) == SplitAcc(s, sep, 1, <<>>, <<>>)

\* A numeral without its leading zeros ("007" is 7, "000" is 0).
RECURSIVE Canon(_)
Canon(d) == IF Len(d) > 1 /\ d[1] = 0 THEN Canon(Tail(d)) ELSE d

\* The numeral of a small natural number.
RECURSIVE NumOfInt(_)
NumOfInt(n) == IF n < 10 THEN <<n>> ELSE Append(NumOfInt(n \div 10), n % 10)

\* The value of a numeral that fits the model's integers.
RECURSIVE IntOfNum(_)
IntOfNum(d) ==
    IF Len(d) = 0 THEN 0
    ELSE IntOfNum(SubSeq(d, 1, Len(d) - 1)) * 10 + d[Len(d)]

\* a <= b on numerals without leading zeros.
RECURSIVE NumLexLeq(_, _, _)
NumLexLeq(a, b, i) ==
    IF i > Len(a) THEN TRUE
    ELSE IF a[i] < b[i] THEN TRUE
    ELSE IF a[i] > b[i] THEN FALSE
    ELSE NumLexLeq(a, b, i + 1)

NumLeq(a, b) ==
    \/ Len(a) < Len(b)
    \/ Len(a) = Len(b) /\ NumLexLeq(a, b, 1)

\* Largest values of the integer types the decoder parses into.
I32Max == <<2, 1, 4, 7, 4, 8, 3, 6, 4, 7>>
I32MinMag == <<2, 1, 4, 7, 4, 8, 3, 6, 4, 8>>
U32Max == <<4, 2, 9, 4, 9, 6, 7, 2, 9, 5>>
U64Max == <<1, 8, 4, 4, 6, 7, 4, 4, 0, 7, 3, 7, 0, 9, 5, 5, 1, 6, 1, 5>>

\* Display of an unsigned integer (to_string / "{}"): its decimal digits.
Fmt(num) == [i \in 1..Len(num) |-> num[i] + 48]

ParseErr == [ok |-> FALSE]

IsDigits(s) == Len(s) > 0 /\ \A i \in 1..Len(s) : s[i] \in 48..57

DigitsOf(s) == Canon([i \in 1..Len(s) |-> s[i] - 48])

\* str::parse for an unsigned type with largest value max: an optional
\* '+', then one or more decimal digits, the value within range.
ParseUnsigned(s, max) ==
    LET body == IF Len(s) > 0 /\ s[1] = 43 THEN Tail(s) ELSE s
    IN  IF ~IsDigits(body) THEN ParseErr
        ELSE IF ~NumLeq(DigitsOf(body), max) THEN ParseErr
        ELSE [ok |-> TRUE, val |-> DigitsOf(body)]

\* str::parse::<i32>: an optional sign, digits, -2^31 <= value <= 2^31 - 1.
\* The value is returned as a model integer.
ParseI32(s) ==
    LET neg  == Len(s) > 0 /\ s[1] = 45
        body == IF Len(s) > 0 /\ s[1] \in {43, 45} THEN Tail(s) ELSE s
    IN  IF ~IsDigits(body) THEN ParseErr
        ELSE IF ~NumLeq(DigitsOf(body), IF neg THEN I32MinMag ELSE I32Max)
        THEN ParseErr
        ELSE IF neg
        THEN [ok |-> TRUE,
              val |-> IF DigitsOf(body) = I32MinMag
                      THEN (0 - 2147483647) - 1
                      ELSE 0 - IntOfNum(DigitsOf(body))]
        ELSE [ok |-> TRUE, val |-> IntOfNum(DigitsOf(body))]

\* str::from_utf8: whether the bytes are well-formed UTF-8 (lead byte and
\* the continuation bytes it calls for).
RECURSIVE Utf8From(_, _)
Utf8From(b, i) ==
    IF i > Len(b) THEN TRUE
    ELSE LET need == IF b[i] < 128 THEN 0
                     ELSE IF b[i] \in 194..223 THEN 1
                     ELSE IF b[i] \in 224..239 THEN 2
                     ELSE IF b[i] \in 240..244 THEN 3
                     ELSE 4
         IN  /\ need < 4
             /\ i + need <= Len(b)
             /\ \A k \in 1..need : b[i + k] \in 128..191
             /\ Utf8From(b, i + need + 1)

IsUtf8(b) == Utf8From(b, 1)

\* ------------------------------------------------------------------------
\* base64 (standard alphabet, padded)
\* ------------------------------------------------------------------------

B64Char(v) ==
    IF v < 26 THEN 65 + v
    ELSE IF v < 52 THEN 97 + (v - 26)
    ELSE IF v < 62 THEN 48 + (v - 52)
    ELSE IF v = 62 THEN 43
    ELSE 47

\* The 6-bit value of a base64 character, -1 for any other byte.
B64Val(c) ==
    IF c \in 65..90 THEN c - 65
    ELSE IF c \in 97..122 THEN c - 97 + 26
    ELSE IF c \in 48..57 THEN c - 48 + 52
    ELSE IF c = 43 THEN 62
    ELSE IF c = 47 THEN 63
    ELSE 0 - 1

RECURSIVE Base64Encode(_)
Base64Encode(b) ==
    IF Len(b) = 0 THEN <<>>
    ELSE IF Len(b) = 1
    THEN <<B64Char(b[1] \div 4), B64Char((b[1] % 4) * 16), 61, 61>>
    ELSE IF Len(b) = 2
    THEN <<B64Char(b[1] \div 4),
           B64Char((b[1] % 4) * 16 + b[2] \div 16),
           B64Char((b[2] % 16) * 4), 61>>
    ELSE <<B64Char(b[1] \div 4),
           B64Char((b[1] % 4) * 16 + b[2] \div 16),
           B64Char((b[2] % 16) * 4 + b[3] \div 64),
           B64Char(b[3] % 64)>>
         \o Base64Encode(SubSeq(b, 4, Len(b)))

\* The bytes of one group of four characters; padding in the last group only.
B64Group(g, last) ==
    LET v1 == B64Val(g[1])
        v2 == B64Val(g[2])
        v3 == B64Val(g[3])
        v4 == B64Val(g[4])
    IN  IF v1 < 0 \/ v2 < 0 THEN ParseErr
        ELSE IF g[3] = 61 /\ g[4] = 61 /\ last
        THEN [ok |-> TRUE, val |-> <<v1 * 4 + v2 \div 16>>]
        ELSE IF v3 < 0 THEN ParseErr
        ELSE IF g[4] = 61 /\ last
        THEN [ok |-> TRUE,
              val |-> <<v1 * 4 + v2 \div 16, (v2 % 16) * 16 + v3 \div 4>>]
        ELSE IF v4 < 0 THEN ParseErr
        ELSE [ok |-> TRUE,
              val |-> <<v1 * 4 + v2 \div 16, (v2 % 16) * 16 + v3 \div 4,
                        (v3 % 4) * 64 + v4>>]

RECURSIVE Base64Decode(_)
Base64Decode(s) ==
    IF Len(s) = 0 THEN [ok |-> TRUE, val |-> <<>>]
    ELSE IF Len(s) < 4 THEN ParseErr
    ELSE LET g    == B64Group(SubSeq(s, 1, 4), Len(s) = 4)
             rest == Base64Decode(SubSeq(s, 5, Len(s)))
         IN  IF ~g.ok THEN ParseErr
             ELSE IF ~rest.ok THEN ParseErr
             ELSE [ok |-> TRUE, val |-> g.val \o rest.val]

\* ------------------------------------------------------------------------
\* Correlation id of a submit request
\* ------------------------------------------------------------------------

\* SubmitParams::as_string: "<height>+<job_id>+<nonce>+<edge_bits>".
as_string(sol) ==
    Fmt(sol.height) \o <<43>> \o Fmt(sol.job_id) \o <<43>>
        \o Fmt(sol.nonce) \o <<43>> \o Fmt(sol.edge_bits)

\* The RPC id that submit_share gives a request: base64 of
\* "<worker_id>+<as_string>".
EncodeId(worker_id, sol) ==
    Base64Encode(Fmt(NumOfInt(worker_id)) \o <<43>> \o as_string(sol))

\* What the 'submit' branch of process_message makes of a response id:
\* "panic" (an unwrap or an index out of range), "invalid" (the
\* "Invalid Worker ID" error is returned) or "ok" with the five values.
DecodeId(id) ==
    LET dec == Base64Decode(id)
    IN  IF ~dec.ok THEN [kind |-> "panic"]
        ELSE IF ~IsUtf8(dec.val) THEN [kind |-> "invalid"]
        ELSE LET v == Split(dec.val, 43)
                 w == ParseUnsigned(v[1], U64Max)
             IN  IF ~w.ok THEN [kind |-> "invalid"]
                 ELSE IF Len(v) < 2 THEN [kind |-> "panic"]
                 ELSE IF ~ParseI32(v[2]).ok THEN [kind |-> "panic"]
                 ELSE IF Len(v) < 3 THEN [kind |-> "panic"]
                 ELSE IF ~ParseUnsigned(v[3], U64Max).ok THEN [kind |-> "panic"]
                 ELSE IF Len(v) < 4 THEN [kind |-> "panic"]
                 ELSE IF ~ParseUnsigned(v[4], U64Max).ok THEN [kind |-> "panic"]
                 ELSE IF Len(v) < 5 THEN [kind |-> "panic"]
                 ELSE IF ~ParseUnsigned(v[5], U32Max).ok THEN [kind |-> "panic"]
                 ELSE [kind      |-> "ok",
                       w_id_usz  |-> w.val,
                       height    |-> ParseI32(v[2]).val,
                       job_id    |-> ParseUnsigned(v[3], U64Max).val,
                       nonce     |-> ParseUnsigned(v[4], U64Max).val,
                       edge_bits |-> ParseUnsigned(v[5], U32Max).val]

\* ------------------------------------------------------------------------
\* Worker-name validation (worker.rs)
\* ------------------------------------------------------------------------

LettersDigits == (97..122) \cup (65..90) \cup (48..57)

\* Every character of check, spaces aside, is a character of legal.
validate_legal_string(check, legal) ==
    (Range(check) \ {32}) \ (legal \ {32}) = {}

validate_username(username) ==
    IF Len(username) = 0 \/ Len(username) > 20
    THEN FALSE
    ELSE validate_legal_string(username, LettersDigits \cup {95})

validate_workername(workername) ==
    IF Len(workername) = 0 \/ Len(workername) > 18
    THEN FALSE
    ELSE validate_legal_string(workername, LettersDigits \cup {95, 46, 45})

\* "__default__"
DefaultWorkername == <<95, 95, 100, 101, 102, 97, 117, 108, 116, 95, 95>>

\* validate_fullname never rewriting the login.
validate_fullname_plain(login) ==
    LET splits         == Split(login, 46)
        need_reconcat  == Len(splits) < 2
        username       == splits[1]
        workername     == IF need_reconcat THEN DefaultWorkername ELSE splits[2]
    IN  [ok    |-> validate_username(username) /\ validate_workername(workername),
         login |-> login]

\* validate_fullname rewriting the login before it validates.
validate_fullname_eager(login) ==
    LET splits         == Split(login, 46)
        need_reconcat  == Len(splits) < 2
        username       == splits[1]
        workername     == IF need_reconcat THEN DefaultWorkername ELSE splits[2]
    IN  [ok    |-> validate_username(username) /\ validate_workername(workername),
         login |-> IF need_reconcat
                   THEN username \o <<46>> \o workername
                   ELSE login]

\* validate_fullname: whether the login is accepted, and the login
\* parameter as the call leaves it.
validate_fullname(login) ==
    LET splits         == Split(login, 46)
        need_reconcat  == Len(splits) < 2
        username       == splits[1]
        workername     == IF need_reconcat THEN DefaultWorkername ELSE splits[2]
    IN  IF validate_username(username) /\ validate_workername(workername)
        THEN [ok    |-> TRUE,
              login |-> IF need_reconcat
                        THEN username \o <<46>> \o workername
                        ELSE login]
        ELSE [ok |-> FALSE, login |-> login]

\* ------------------------------------------------------------------------
\* Share record (kafka/share.rs)
\* ------------------------------------------------------------------------

FULLNAME_LIMIT == 46

Reject == 0

Accept == 1

Repeat(x, n) == [i \in 1..n |-> x]

\* Number of chars of a UTF-8 string: its bytes that start a character.
CharCount(s) == Cardinality({i \in 1..Len(s) : s[i] \notin 128..191})

\* get_server_id: the number after the first '-', as u16.
get_server_id(server_id) ==
    LET splits == Split(server_id, 45)
    IN  IF Len(splits) < 2 THEN ParseErr
        ELSE LET n == ParseUnsigned(splits[2], <<6, 5, 5, 3, 5>>)
             IN  IF n.ok THEN [ok |-> TRUE, val |-> IntOfNum(n.val)] ELSE ParseErr

\* get_inet_addr: "a.b.c.d:port" to the address d.c.b.a; the u32 is given
\* as its four bytes, most significant first.
get_inet_addr(worker_addr) ==
    LET addr_port == Split(worker_addr, 58)
    IN  IF Len(addr_port) < 2 THEN ParseErr
        ELSE LET parts == Split(addr_port[1], 46)
                 octet(i) == ParseUnsigned(parts[i], <<2, 5, 5>>)
             IN  IF \E i \in 1..Len(parts) : ~octet(i).ok THEN ParseErr
                 ELSE IF Len(parts) < 4 THEN ParseErr
                 ELSE [ok  |-> TRUE,
                       val |-> <<IntOfNum(octet(4).val), IntOfNum(octet(3).val),
                                 IntOfNum(octet(2).val), IntOfNum(octet(1).val)>>]

\* get_fullname: the name padded with NUL to FULLNAME_LIMIT chars; the copy
\* into the fixed array fails unless the char count is the limit exactly.
get_fullname(fullname) ==
    LET padded == IF Len(fullname) < FULLNAME_LIMIT
                  THEN fullname \o Repeat(0, FULLNAME_LIMIT - Len(fullname))
                  ELSE fullname
    IN  IF CharCount(padded) = FULLNAME_LIMIT
        THEN [ok |-> TRUE, val |-> padded]
        ELSE ParseErr

NoShare == [ok |-> FALSE]

\* The outcome of send_data for a share.
Sending(sh, sent) == [ok |-> TRUE, share |-> sh.share, sent |-> sent]

\* Share::new; ok is FALSE where the construction panics.  The timestamp
\* (wall clock) is left out of the record.
ShareNew(job_id, server_id, worker_addr, worker_id, difficulty, fullname, result, height) ==
    LET sid  == get_server_id(server_id)
        ip   == get_inet_addr(worker_addr)
        name == get_fullname(fullname)
    IN  IF ~sid.ok \/ ~ip.ok \/ ~name.ok THEN NoShare
        ELSE [ok    |-> TRUE,
              share |-> [job_id         |-> job_id,
                         worker_hash_id |-> 0,
                         difficulty     |-> difficulty,
                         ip             |-> ip.val,
                         user_id        |-> worker_id,
                         blkbits        |-> 0,
                         result         |-> result,
                         height         |-> height,
                         share_diff     |-> 0,
                         server_id      |-> sid.val,
                         fullname       |-> name.val]]

\* ------------------------------------------------------------------------
\* State
\* ------------------------------------------------------------------------

VARIABLES
    workers,    \* the registry: Vec<Worker> behind the mutex
    nextId,     \* the id the accept loop gives the next worker
    lock,       \* the registry mutex: "free", "server", "pool", "poisoned"
    srvStream,  \* Server.stream is Some
    srvError,   \* Server.error
    srvJob,     \* Server.job
    srvStatus,  \* Server.status
    upOut,      \* requests written to the current upstream socket
    produced,   \* the number of send_data calls made on the producer
    pc,         \* where the upstream unit is in process_message
    cur,        \* the frame process_message is handling / handled last
    loc,        \* the locals of the 'submit' branch: decoded id, index
    inflight,   \* the share of this call and whether the producer sent it
    pre,        \* per worker id: counters and acks when the call began
    prePub,     \* produced when the call began
    nSubmit,    \* 'submit' responses taken from the socket so far
    ret,        \* what the last call of the upstream session returned
    wret,       \* what the last call on a worker session returned
    sockIn,     \* messages waiting unread on the inbound sockets
    hist,       \* per worker id: submissions enqueued and handed out so far
    built,      \* a share record on its way: arguments, record, bytes
    poolJob     \* the current job the pool hands to Worker::send_job

vars == <<workers, nextId, lock, srvStream, srvError, srvJob, srvStatus,
          upOut, produced, pc, cur, loc, inflight, pre, prePub, nSubmit,
          ret, wret,
                   sockIn, hist, built, poolJob>>

\* cfg.server.id
ServerCfgId == 1

\* Server.id: "Pool-<cfg.server.id>"
PoolId == <<80, 111, 111, 108, 45>> \o Fmt(NumOfInt(ServerCfgId))

\* Requests recognised by the pool's own id.
StratumIdIsPoolId == PoolId

\* "Stratum": the id of the frames process_message takes for requests.
StratumId == <<83, 116, 114, 97, 116, 117, 109>>

\* JobTemplate::new
NoJob == [height |-> 0, job_id |-> 0, difficulty |-> 0]

\* WorkerStatus::new
WorkerStatusNew ==
    [accepted |-> 0, rejected |-> 0, stale |-> 0, difficulty |-> 1, height |-> 0]

NoLogin == [some |-> FALSE, login |-> <<>>]

\* Worker::new
WorkerNew(id, addr) ==
    [id            |-> id,
     login         |-> NoLogin,
     error         |-> FALSE,
     authenticated |-> FALSE,
     status        |-> WorkerStatusNew,
     block_status  |-> WorkerStatusNew,
     shares        |-> <<>>,
     needs_job     |-> TRUE,
     addr          |-> addr,
     out           |-> <<>>]

\* A session without a login giving the empty name.
WorkerLoginOrEmpty(w) ==
    IF w.login.some THEN w.login.login ELSE <<>>

\* Worker::login: the stored login, or "None.__default__".
WorkerLoginName(w) ==
    IF w.login.some THEN w.login.login
    ELSE <<78, 111, 110, 101, 46>> \o DefaultWorkername

\* Worker::send_ok: an "ok" response for method written to the worker.
send_ok(w, method) ==
    [w EXCEPT !.out = Append(@, [method |-> method, result |-> "ok"])]

\* The "ok" acknowledgements of submits a worker has been sent.
Acks(w) == Len(SelectSeq(w.out, LAMBDA m : m.method = "submit"))

WorkerIds(ws) == {ws[i].id : i \in 1..Len(ws)}

ById(ws, id) == ws[CHOOSE i \in 1..Len(ws) : ws[i].id = id]

\* Counters and acknowledgements per worker id.
Snapshot(ws) ==
    [id \in WorkerIds(ws) |->
        [accepted |-> ById(ws, id).status.accepted,
         rejected |-> ById(ws, id).status.rejected,
         stale    |-> ById(ws, id).status.stale,
         acks     |-> Acks(ById(ws, id))]]

\* Position with an unknown id falling back to the first worker.
PositionOrFirst(ws, w_id_usz) ==
    IF \E i \in 1..Len(ws) : NumOfInt(ws[i].id) = w_id_usz
    THEN (CHOOSE i \in 1..Len(ws) : NumOfInt(ws[i].id) = w_id_usz) - 1
    ELSE IF Len(ws) > 0 THEN 0 ELSE 0 - 1

\* workers_l.iter().position(|i| i.id == w_id_usz): the index (from 0) of
\* the first worker with that id, -1 for None.
Position(ws, w_id_usz) ==
    IF \E i \in 1..Len(ws) : NumOfInt(ws[i].id) = w_id_usz
    THEN (CHOOSE i \in 1..Len(ws) :
            /\ NumOfInt(ws[i].id) = w_id_usz
            /\ \A k \in 1..(i - 1) : NumOfInt(ws[k].id) # w_id_usz) - 1
    ELSE 0 - 1

\* Results of the upstream session's calls.
RetOk(op, val) == [op |-> op, ok |-> TRUE, code |-> 0, val |-> val]

RetErr(op, code, msg) == [op |-> op, ok |-> FALSE, code |-> code, val |-> msg]

RetPending == [op |-> "process_message", ok |-> FALSE, code |-> 0, val |-> "pending"]

\* ------------------------------------------------------------------------
\* Inputs
\* ------------------------------------------------------------------------

Num(n) == NumOfInt(n)

Solution(height, job_id, nonce, edge_bits) ==
    [height |-> height, job_id |-> job_id, nonce |-> nonce, edge_bits |-> edge_bits]

\* Submissions: height 1000 and the first height above the i32 range.
Solutions ==
    {Solution(Num(1000), Num(42), Num(9), Num(31)),
     Solution(I32Max, Num(42), Num(9), Num(29)),
     Solution(I32MinMag, Num(42), Num(9), Num(31))}

\* Ids no submit_share builds: not base64, not UTF-8, two fields only, a
\* letter for the height, a letter for the worker id.
MalformedIds ==
    {<<33, 33, 33, 33>>,
     Base64Encode(<<255, 43, 49>>),
     Base64Encode(<<48, 43, 49, 48>>),
     Base64Encode(<<48, 43, 120, 43, 52, 50, 43, 57, 43, 51, 49>>),
     Base64Encode(<<120, 43, 49, 48, 43, 52, 50, 43, 57, 43, 51, 49>>)}

\* The submission whose responses the upstream session credits.
CreditedSolution == Solution(Num(1000), Num(42), Num(9), Num(31))

\* Ids of responses: for every worker id ever given and one never given.
WellFormedIds == {EncodeId(w, CreditedSolution) : w \in 0..MaxWorkers}

Jobs ==
    {[height |-> 1000, job_id |-> 42, difficulty |-> 4],
     [height |-> 1001, job_id |-> 43, difficulty |-> 4]}

PoolStatuses == {[WorkerStatusNew EXCEPT !.accepted = 5]}

\* A message of the node: a response without a result carries an error
\* with a code and a message.
Frame(id, method, hasResult, code, job, status) ==
    [id |-> id, method |-> method, hasResult |-> hasResult, code |-> code,
     job |-> job, status |-> status, hasError |-> ~hasResult,
     message |-> IF hasResult THEN "" ELSE "upstream"]

NoFrame == Frame(<<>>, "", FALSE, 0, NoJob, WorkerStatusNew)

\* A result, "Solution submitted too late", "Failed to validate solution".
SubmitOutcomes == {<<TRUE, 0>>, <<FALSE, 0 - 32503>>, <<FALSE, 0 - 32502>>}

SubmitFrames ==
    {Frame(id, "submit", r[1], r[2], NoJob, WorkerStatusNew) :
        id \in WellFormedIds, r \in SubmitOutcomes}
    \cup {Frame(id, "submit", TRUE, 0, NoJob, WorkerStatusNew) : id \in MalformedIds}

OtherFrames ==
    {Frame(StratumId, "job", FALSE, 0, j, WorkerStatusNew) : j \in Jobs}
    \cup {Frame(StratumId, "keepalive", FALSE, 0, NoJob, WorkerStatusNew)}
    \cup {Frame(PoolId, "getjobtemplate", TRUE, 0, j, WorkerStatusNew) : j \in Jobs}
    \cup {Frame(PoolId, "getjobtemplate", FALSE, 0 - 32000, NoJob, WorkerStatusNew)}
    \cup {Frame(PoolId, "login", TRUE, 0, NoJob, WorkerStatusNew)}
    \cup {Frame(PoolId, "login", FALSE, 0 - 32500, NoJob, WorkerStatusNew)}
    \cup {[Frame(PoolId, "login", FALSE, 0 - 32500, NoJob, WorkerStatusNew)
              EXCEPT !.message = "login first"]}
    \cup {[Frame(PoolId, "getjobtemplate", FALSE, 0 - 32000, NoJob, WorkerStatusNew)
              EXCEPT !.hasError = FALSE]}
    \cup {Frame(PoolId, "status", TRUE, 0, NoJob, st) : st \in PoolStatuses}
    \cup {Frame(PoolId, "status", FALSE, 0 - 32600, NoJob, WorkerStatusNew)}
    \cup {Frame(PoolId, "keepalive", TRUE, 0, NoJob, WorkerStatusNew)}
    \cup {Frame(PoolId, "job", TRUE, 0, j, WorkerStatusNew) : j \in Jobs}

\* The login strings workers send: "al.r1", "bob", "al!", a name of 49
\* characters whose third part is not looked at, "alice.rig1" and "a.b.!".
LoginInputs ==
    {<<97, 108, 46, 114, 49>>,
     <<98, 111, 98>>,
     <<97, 108, 33>>,
     <<97, 46, 98, 46>> \o Repeat(99, 45),
     <<97, 108, 105, 99, 101, 46, 114, 105, 103, 49>>,
     <<97, 46, 98, 46, 33>>}

\* "10.0.0.2:5000"
WorkerAddrs == {<<49, 48, 46, 48, 46, 48, 46, 50, 58, 53, 48, 48, 48>>}

NoLoc == [d |-> [kind |-> "none"], w_id |-> 0 - 1]

NoSnapshot == [id \in {} |-> 0]

\* No call of Worker::process_messages made yet: what a call returned, the
\* transport result it read, the index of the worker and the worker as the
\* call found it.
NoCall == [ret |-> "none", input |-> [kind |-> "none"], i |-> 0, before |-> <<>>]

\* No share record is on its way.
NoBuild ==
    [step |-> "none", args |-> <<>>, share |-> NoShare, bytes |-> <<>>,
     decoded |-> NoShare]

\* Nothing waits on the upstream socket or on any worker's socket.
NoPending == [up |-> <<>>, down |-> [id \in 0..(MaxWorkers - 1) |-> <<>>]]

\* No worker has enqueued a submission or been asked for its queue, and no
\* 'submit' response has been resolved to a worker.
NoHistory ==
    [id \in 0..(MaxWorkers - 1) |-> [enq |-> <<>>, got |-> <<>>, resolved |-> 0]]

Init ==
    /\ workers = <<>>
    /\ nextId = 0
    /\ lock = "free"
    /\ srvStream = FALSE
    /\ srvError = FALSE
    /\ srvJob = NoJob
    /\ srvStatus = WorkerStatusNew
    /\ upOut = <<>>
    /\ produced = 0
    /\ pc = "idle"
    /\ cur = NoFrame
    /\ loc = NoLoc
    /\ inflight = NoShare
    /\ pre = NoSnapshot
    /\ prePub = 0
    /\ nSubmit = 0
    /\ ret = RetOk("new", "")
    /\ wret = NoCall
    /\ sockIn = NoPending
    /\ hist = NoHistory
    /\ built = NoBuild
    /\ poolJob = NoJob

\* ------------------------------------------------------------------------
\* The pool's side of the registry (accept loop and worker polling): every
\* access to a Worker goes through the mutex of Arc<Mutex<Vec<Worker>>>.
\* ------------------------------------------------------------------------

PoolLock ==
    /\ lock = "free"
    /\ lock' = "pool"
    /\ UNCHANGED <<workers, nextId, srvStream, srvError, srvJob, srvStatus,
                   upOut, produced, pc, cur, loc, inflight, pre, prePub, nSubmit,
                   ret, wret,
                   sockIn, hist, built, poolJob>>

PoolUnlock ==
    /\ lock = "pool"
    /\ lock' = "free"
    /\ UNCHANGED <<workers, nextId, srvStream, srvError, srvJob, srvStatus,
                   upOut, produced, pc, cur, loc, inflight, pre, prePub, nSubmit,
                   ret, wret,
                   sockIn, hist, built, poolJob>>

\* The accept loop inserts a new session with the next id.
AcceptWorker ==
    /\ lock = "pool"
    /\ nextId < MaxWorkers
    /\ \E addr \in WorkerAddrs :
          workers' = Append(workers, WorkerNew(nextId, addr))
    /\ nextId' = nextId + 1
    /\ UNCHANGED <<lock, srvStream, srvError, srvJob, srvStatus, upOut,
                   produced, pc, cur, loc, inflight, pre, prePub, nSubmit, ret, wret,
                   sockIn, hist, built, poolJob>>

\* The supervision loop tears a session down.
RemoveWorker ==
    /\ lock = "pool"
    /\ \E i \in 1..Len(workers) :
          workers' = SubSeq(workers, 1, i - 1) \o SubSeq(workers, i + 1, Len(workers))
    /\ UNCHANGED <<nextId, lock, srvStream, srvError, srvJob, srvStatus, upOut,
                   produced, pc, cur, loc, inflight, pre, prePub, nSubmit, ret, wret,
                   sockIn, hist, built, poolJob>>

\* A request as the worker's transport hands it over: whether the line is
\* a JSON request at all, its method, whether params are present and of
\* the method's shape, and the params themselves.
Request(method, params, login, share) ==
    [json |-> TRUE, method |-> method, params |-> params, login |-> login,
     share |-> share]

NoSolution == Solution(<<0>>, <<0>>, <<0>>, <<0>>)

Reply(method, result, status) ==
    [method |-> method, result |-> result, status |-> status]

\* Worker::send_status
send_status(w, status) ==
    [w EXCEPT !.out = Append(@, Reply("status", "status", status))]

\* A poll that finds nothing to read treated as a failed read.
NoMessageIsError(w) ==
    [w |-> [w EXCEPT !.error = TRUE], ret |-> "Err(transport)"]

\* The arm of Worker::process_messages for a read that found no message.
NoMessage(w) ==
    [w |-> w, ret |-> "Ok"]

UnknownRequestUnflagged(w) ==
    [w |-> w, ret |-> "Err(Unknown request)"]

\* The arm of Worker::process_messages for a method it does not know.
UnknownRequest(w) ==
    [w |-> [w EXCEPT !.error = TRUE], ret |-> "Err(Unknown request)"]

\* A 'getjobtemplate' request that is read and dropped.
GetJobTemplateIgnored(w) ==
    [w |-> w, ret |-> "Ok"]

\* The arm of Worker::process_messages for 'getjobtemplate'.
GetJobTemplate(w) ==
    [w |-> [w EXCEPT !.needs_job = TRUE], ret |-> "Ok"]

\* Worker::process_messages on one transport result: the session as the
\* call leaves it and what the call returns ("panic" for an unwrap of a
\* missing value).
process_messages(w, input) ==
    IF input.kind = "err"
    THEN [w |-> [w EXCEPT !.error = TRUE], ret |-> "Err(transport)"]
    ELSE IF input.kind = "none"
    THEN NoMessage(w)
    ELSE LET req == input.req
         IN  IF ~req.json
             THEN [w |-> [w EXCEPT !.error = TRUE], ret |-> "Err(json)"]
             ELSE IF req.method = "login"
             THEN IF req.params = "none"
                  THEN [w |-> [w EXCEPT !.error = TRUE], ret |-> "Err(invalid request)"]
                  ELSE IF req.params = "bad"
                  THEN [w |-> [w EXCEPT !.error = TRUE], ret |-> "Err(json)"]
                  ELSE LET v == validate_fullname(req.login)
                       IN  IF v.ok
                           THEN [w |-> send_ok([w EXCEPT !.login =
                                            [some |-> TRUE, login |-> v.login]],
                                         "login"),
                                 ret |-> "Ok"]
                           ELSE [w |-> w, ret |-> "Err(invalid worker name)"]
             ELSE IF req.method = "getjobtemplate"
             THEN GetJobTemplate(w)
             ELSE IF req.method = "submit"
             THEN IF req.params = "none"
                  THEN [w |-> w, ret |-> "panic"]
                  ELSE IF req.params = "bad"
                  THEN [w |-> w, ret |-> "Ok"]
                  ELSE [w |-> [w EXCEPT !.shares = Append(@, req.share)], ret |-> "Ok"]
             ELSE IF req.method = "status"
             THEN [w |-> send_status(w, w.status), ret |-> "Ok"]
             ELSE IF req.method = "keepalive"
             THEN [w |-> send_ok(w, "keepalive"), ret |-> "Ok"]
             ELSE UnknownRequest(w)

\* The logins of the workers whose submits the upstream session credits:
\* "al.r1" and the name of 49 characters.
CreditedLogins ==
    {<<97, 108, 46, 114, 49>>, <<97, 46, 98, 46>> \o Repeat(99, 45)}

LoginRequests ==
    {[kind |-> "msg", req |-> Request("login", "ok", l, NoSolution)] :
        l \in CreditedLogins}

\* The pool polls one worker: Worker::process_messages under the lock.
WorkerPoll ==
    /\ lock = "pool"
    /\ \E i \in 1..Len(workers), input \in LoginRequests :
          LET r == process_messages(workers[i], input)
          IN  /\ Len(r.w.out) - Acks(r.w) <= MaxOut
              /\ workers' = [workers EXCEPT ![i] = r.w]
              /\ wret' = [NoCall EXCEPT !.ret = r.ret]
    /\ UNCHANGED <<nextId, lock, srvStream, srvError, srvJob, srvStatus, upOut,
                   produced, pc, cur, loc, inflight, pre, prePub, nSubmit, ret,
                   sockIn, hist, built, poolJob>>

\* The history after a call that took the session from w to after: what
\* the call pushed onto the queue is recorded as enqueued.
Enqueued(w, after) ==
    IF Len(after.shares) = Len(w.shares) + 1
    THEN [hist EXCEPT ![w.id].enq = Append(@, after.shares[Len(after.shares)])]
    ELSE hist

\* What a worker's transport hands process_messages: an error, nothing, a
\* line that is no JSON request, and requests of every method with params
\* absent, of the wrong shape, or well-formed.
WorkerInputs ==
    {[kind |-> "err"], [kind |-> "none"]}
    \cup {[kind |-> "msg", req |-> [Request("login", "none", <<>>, NoSolution) EXCEPT !.json = FALSE]]}
    \cup {[kind |-> "msg", req |-> Request("login", p, <<>>, NoSolution)] : p \in {"none", "bad"}}
    \cup {[kind |-> "msg", req |-> Request("login", "ok", l, NoSolution)] : l \in LoginInputs}
    \cup {[kind |-> "msg", req |-> Request("submit", p, <<>>, NoSolution)] : p \in {"none", "bad"}}
    \cup {[kind |-> "msg", req |-> Request("submit", "ok", <<>>, CreditedSolution)]}
    \cup {[kind |-> "msg", req |-> Request(m, "none", <<>>, NoSolution)] :
             m \in {"getjobtemplate", "status", "keepalive", "foo"}}

\* The pool polls one worker with any transport result.  A panic of the
\* call unwinds through the holder of the registry lock.
WorkerRecv ==
    /\ lock = "pool"
    /\ \E i \in 1..Len(workers), input \in WorkerInputs :
          LET r == process_messages(workers[i], input)
          IN  /\ Len(r.w.out) <= MaxOut
              /\ Len(r.w.shares) <= MaxQueue
              /\ workers' = [workers EXCEPT ![i] = r.w]
              /\ wret' = [ret |-> r.ret, input |-> input, i |-> i,
                          before |-> workers[i]]
              /\ hist' = Enqueued(workers[i], r.w)
              /\ lock' = IF r.ret = "panic" THEN "poisoned" ELSE lock
    /\ UNCHANGED <<nextId, srvStream, srvError, srvJob, srvStatus, upOut,
                   produced, pc, cur, loc, inflight, pre, prePub, nSubmit, ret,
                   sockIn, built, poolJob>>

\* 'submit' requests as a worker's transport hands them over: well-formed
\* ones with different payloads, and one whose payload does not parse.
SubmitRequests ==
    {[kind |-> "msg", req |-> Request("submit", "ok", <<>>, sol)] : sol \in Solutions}
    \cup {[kind |-> "msg", req |-> Request("submit", "bad", <<>>, NoSolution)]}

\* The pool polls one worker whose socket holds a 'submit' request.
WorkerSubmit ==
    /\ lock = "pool"
    /\ \E i \in 1..Len(workers), input \in SubmitRequests :
          LET r == process_messages(workers[i], input)
          IN  /\ Len(Enqueued(workers[i], r.w)[workers[i].id].enq) <= MaxEnqueued
              /\ workers' = [workers EXCEPT ![i] = r.w]
              /\ wret' = [ret |-> r.ret, input |-> input, i |-> i,
                          before |-> workers[i]]
              /\ hist' = Enqueued(workers[i], r.w)
    /\ UNCHANGED <<nextId, lock, srvStream, srvError, srvJob, srvStatus, upOut,
                   produced, pc, cur, loc, inflight, pre, prePub, nSubmit, ret,
                   sockIn, built, poolJob>>

\* The pool polls a worker that sends its first submission without having
\* logged in.
EarlySubmit ==
    /\ lock = "pool"
    /\ \E i \in 1..Len(workers) :
          LET input == [kind |-> "msg",
                        req |-> Request("submit", "ok", <<>>, CreditedSolution)]
              r     == process_messages(workers[i], input)
          IN  /\ ~workers[i].login.some
              /\ hist[workers[i].id].enq = <<>>
              /\ workers' = [workers EXCEPT ![i] = r.w]
              /\ wret' = [ret |-> r.ret, input |-> input, i |-> i,
                          before |-> workers[i]]
              /\ hist' = Enqueued(workers[i], r.w)
    /\ UNCHANGED <<nextId, lock, srvStream, srvError, srvJob, srvStatus, upOut,
                   produced, pc, cur, loc, inflight, pre, prePub, nSubmit, ret,
                   sockIn, built, poolJob>>

\* get_shares handing the queue over without emptying it.
get_shares_keep(w) ==
    IF Len(w.shares) > 0
    THEN [w |-> w, ret |-> "Ok(Some)", shares |-> w.shares]
    ELSE [w |-> w, ret |-> "Ok(None)", shares |-> <<>>]

\* Worker::get_shares: the session as the call leaves it, what the call
\* returns and the submissions it hands over.
get_shares(w) ==
    IF Len(w.shares) > 0
    THEN [w |-> [w EXCEPT !.shares = <<>>], ret |-> "Ok(Some)", shares |-> w.shares]
    ELSE [w |-> w, ret |-> "Ok(None)", shares |-> <<>>]

\* The pool asks one worker for its pending submissions.
GetShares ==
    /\ lock = "pool"
    /\ \E i \in 1..Len(workers) :
          LET r == get_shares(workers[i])
          IN  /\ Len(hist[workers[i].id].got) + Len(r.shares) <= MaxEnqueued
              /\ workers' = [workers EXCEPT ![i] = r.w]
              /\ wret' = [ret |-> r.ret, input |-> [kind |-> "get_shares"],
                          i |-> i, before |-> workers[i], shares |-> r.shares]
              /\ hist' = [hist EXCEPT ![workers[i].id].got = @ \o r.shares]
    /\ UNCHANGED <<nextId, lock, srvStream, srvError, srvJob, srvStatus, upOut,
                   produced, pc, cur, loc, inflight, pre, prePub, nSubmit, ret,
                   sockIn, built, poolJob>>

\* Requests of a worker that is mining: for a job, a keepalive, and a
\* submission.
MiningRequests ==
    {[kind |-> "msg", req |-> Request(m, "none", <<>>, NoSolution)] :
        m \in {"getjobtemplate", "keepalive"}}
    \cup {[kind |-> "msg", req |-> Request("submit", "ok", <<>>, CreditedSolution)]}

\* The pool polls one worker whose socket holds a request of a mining
\* worker.
WorkerAsk ==
    /\ lock = "pool"
    /\ \E i \in 1..Len(workers), input \in MiningRequests :
          LET r == process_messages(workers[i], input)
          IN  /\ Len(r.w.out) <= MaxOut
              /\ Len(r.w.shares) <= MaxQueue
              /\ workers' = [workers EXCEPT ![i] = r.w]
              /\ wret' = [ret |-> r.ret, input |-> input, i |-> i,
                          before |-> workers[i]]
              /\ hist' = Enqueued(workers[i], r.w)
    /\ UNCHANGED <<nextId, lock, srvStream, srvError, srvJob, srvStatus, upOut,
                   produced, pc, cur, loc, inflight, pre, prePub, nSubmit, ret,
                   sockIn, built, poolJob>>

\* A call that puts the error flag down.
clear_error(w) == [w EXCEPT !.error = FALSE]

\* Worker::set_error
set_error(w) == [w EXCEPT !.error = TRUE]

\* The pool marks one worker as failed.
SetError ==
    /\ lock = "pool"
    /\ \E i \in 1..Len(workers) :
          workers' = [workers EXCEPT ![i] = set_error(workers[i])]
    /\ UNCHANGED <<nextId, lock, srvStream, srvError, srvJob, srvStatus, upOut,
                   produced, pc, cur, loc, inflight, pre, prePub, nSubmit, ret,
                   wret, sockIn, hist, built, poolJob>>

\* The difficulties the pool assigns to workers.
Difficulties == {2, 3}

\* Worker::set_difficulty
set_difficulty(w, new_difficulty) ==
    [w EXCEPT !.status.difficulty = new_difficulty]

\* The pool gives one worker a difficulty of its own.
SetDifficulty ==
    /\ lock = "pool"
    /\ \E i \in 1..Len(workers), d \in Difficulties :
          /\ workers[i].status.difficulty # d
          /\ workers' = [workers EXCEPT ![i] = set_difficulty(workers[i], d)]
    /\ UNCHANGED <<nextId, lock, srvStream, srvError, srvJob, srvStatus, upOut,
                   produced, pc, cur, loc, inflight, pre, prePub, nSubmit, ret,
                   wret, sockIn, hist, built, poolJob>>

\* The orchestration loop takes a new job template as the current job.
AdvanceJob ==
    /\ \E j \in Jobs : j.job_id # poolJob.job_id /\ poolJob' = j
    /\ UNCHANGED <<workers, nextId, lock, srvStream, srvError, srvJob, srvStatus,
                   upOut, produced, pc, cur, loc, inflight, pre, prePub, nSubmit,
                   ret, wret, sockIn, hist, built>>

\* A 'getjobtemplate' response with the job as it is handed in.
send_job_shared(w, job) ==
    [w   |-> [w EXCEPT !.needs_job = FALSE,
                       !.out = Append(@, [method |-> "getjobtemplate",
                                          result |-> "job", job |-> job])],
     job |-> job,
     ret |-> "Ok"]

\* Worker::send_job: the session and the caller's job as the call leaves
\* them.  The job is written to the worker after its difficulty has been
\* overwritten with the worker's.
send_job(w, job) ==
    LET own == [job EXCEPT !.difficulty = w.status.difficulty]
    IN  [w   |-> [w EXCEPT !.needs_job = FALSE,
                           !.out = Append(@, [method |-> "getjobtemplate",
                                              result |-> "job", job |-> own])],
         job |-> own,
         ret |-> "Ok"]

\* The job messages a worker has been sent.
JobsSent(w) == SelectSeq(w.out, LAMBDA m : m.method = "getjobtemplate")

\* The pool pushes the current job to one worker.
SendJob ==
    /\ lock = "pool"
    /\ poolJob # NoJob
    /\ \E i \in 1..Len(workers) :
          LET r == send_job(workers[i], poolJob)
          IN  /\ Len(JobsSent(workers[i])) < MaxJobsSent
              /\ workers' = [workers EXCEPT ![i] = r.w]
              /\ poolJob' = r.job
              /\ wret' = [ret |-> r.ret, input |-> [kind |-> "send_job", job |-> poolJob],
                          i |-> i, before |-> workers[i]]
    /\ UNCHANGED <<nextId, lock, srvStream, srvError, srvJob, srvStatus, upOut,
                   produced, pc, cur, loc, inflight, pre, prePub, nSubmit, ret,
                   sockIn, hist, built>>

\* ------------------------------------------------------------------------
\* The upstream session (server.rs)
\* ------------------------------------------------------------------------

Sent(method, id, worker_id, sol) ==
    [method |-> method, id |-> id, worker_id |-> worker_id, params |-> sol]

\* What stays as it is across a call of the session that only returns.
SessionRest ==
    <<workers, nextId, lock, srvStream, srvError, srvJob, srvStatus, upOut,
      produced, pc, cur, loc, inflight, pre, prePub, nSubmit, wret,
                   sockIn, hist, built, poolJob>>

\* connect() going through its steps whatever the state of the session.
ConnectAlways ==
    /\ pc = "idle"
    /\ \E outcome \in {"refused", "login failed", "job failed", "ok"} :
          IF outcome = "refused"
          THEN /\ srvError' = TRUE
               /\ ret' = RetErr("connect", 0, "connect")
               /\ UNCHANGED <<srvStream, upOut, sockIn>>
          ELSE /\ srvStream' = TRUE
               /\ sockIn' = [sockIn EXCEPT !.up = <<>>]
               /\ srvError' = (outcome # "ok")
               /\ upOut' =
                    IF outcome = "login failed" THEN <<>>
                    ELSE IF outcome = "job failed"
                    THEN <<Sent("login", PoolId, 0, NoSolution)>>
                    ELSE <<Sent("login", PoolId, 0, NoSolution),
                           Sent("getjobtemplate", PoolId, 0, NoSolution)>>
               /\ ret' = IF outcome = "ok" THEN RetOk("connect", "")
                         ELSE RetErr("connect", 0, "send")
    /\ UNCHANGED <<workers, nextId, lock, srvJob, srvStatus, produced, pc, cur,
                   loc, inflight, pre, prePub, nSubmit, wret, hist, built, poolJob>>

\* connect() asking for the job although the login could not be sent.
ConnectKeepsGoing ==
    /\ pc = "idle"
    /\ IF ~srvError /\ srvStream
       THEN /\ ret' = RetOk("connect", "")
            /\ UNCHANGED <<srvStream, srvError, upOut, sockIn>>
       ELSE \E outcome \in {"refused", "login failed", "job failed", "ok"} :
              IF outcome = "refused"
              THEN /\ srvError' = TRUE
                   /\ ret' = RetErr("connect", 0, "connect")
                   /\ UNCHANGED <<srvStream, upOut, sockIn>>
              ELSE /\ srvStream' = TRUE
                   /\ sockIn' = [sockIn EXCEPT !.up = <<>>]
                   /\ srvError' = (outcome # "ok")
                   /\ upOut' =
                        IF outcome = "login failed"
                        THEN <<Sent("getjobtemplate", PoolId, 0, NoSolution)>>
                        ELSE IF outcome = "job failed"
                        THEN <<Sent("login", PoolId, 0, NoSolution)>>
                        ELSE <<Sent("login", PoolId, 0, NoSolution),
                               Sent("getjobtemplate", PoolId, 0, NoSolution)>>
                   /\ ret' = IF outcome = "ok" THEN RetOk("connect", "")
                             ELSE RetErr("connect", 0, "send")
    /\ UNCHANGED <<workers, nextId, lock, srvJob, srvStatus, produced, pc, cur,
                   loc, inflight, pre, prePub, nSubmit, wret, hist, built, poolJob>>

\* connect() that looks at the socket only: a session that has one is left
\* as it is, whatever its error flag.
ConnectIfNoStream ==
    /\ pc = "idle"
    /\ IF srvStream
       THEN /\ ret' = RetOk("connect", "")
            /\ UNCHANGED <<srvStream, srvError, upOut, sockIn>>
       ELSE \E outcome \in {"refused", "login failed", "job failed", "ok"} :
              IF outcome = "refused"
              THEN /\ srvError' = TRUE
                   /\ ret' = RetErr("connect", 0, "connect")
                   /\ UNCHANGED <<srvStream, upOut, sockIn>>
              ELSE /\ srvStream' = TRUE
                   /\ sockIn' = [sockIn EXCEPT !.up = <<>>]
                   /\ srvError' = (outcome # "ok")
                   /\ upOut' =
                        IF outcome = "login failed" THEN <<>>
                        ELSE IF outcome = "job failed"
                        THEN <<Sent("login", PoolId, 0, NoSolution)>>
                        ELSE <<Sent("login", PoolId, 0, NoSolution),
                               Sent("getjobtemplate", PoolId, 0, NoSolution)>>
                   /\ ret' = IF outcome = "ok" THEN RetOk("connect", "")
                             ELSE RetErr("connect", 0, "send")
    /\ UNCHANGED <<workers, nextId, lock, srvJob, srvStatus, produced, pc, cur,
                   loc, inflight, pre, prePub, nSubmit, wret, hist, built, poolJob>>

\* Server::connect.  The socket open and the two sends each succeed or
\* fail; a new socket starts a new outgoing stream and has nothing to read.
Connect ==
    /\ pc = "idle"
    /\ IF ~srvError /\ srvStream
       THEN /\ ret' = RetOk("connect", "")
            /\ UNCHANGED <<srvStream, srvError, upOut, sockIn>>
       ELSE \E outcome \in {"refused", "login failed", "job failed", "ok"} :
              IF outcome = "refused"
              THEN /\ srvError' = TRUE
                   /\ ret' = RetErr("connect", 0, "connect")
                   /\ UNCHANGED <<srvStream, upOut, sockIn>>
              ELSE /\ srvStream' = TRUE
                   /\ sockIn' = [sockIn EXCEPT !.up = <<>>]
                   /\ srvError' = (outcome # "ok")
                   /\ upOut' =
                        IF outcome = "login failed" THEN <<>>
                        ELSE IF outcome = "job failed"
                        THEN <<Sent("login", PoolId, 0, NoSolution)>>
                        ELSE <<Sent("login", PoolId, 0, NoSolution),
                               Sent("getjobtemplate", PoolId, 0, NoSolution)>>
                   /\ ret' = IF outcome = "ok" THEN RetOk("connect", "")
                             ELSE RetErr("connect", 0, "send")
    /\ UNCHANGED <<workers, nextId, lock, srvJob, srvStatus, produced, pc, cur,
                   loc, inflight, pre, prePub, nSubmit, wret, hist, built, poolJob>>

\* Server::request_status
RequestStatus ==
    /\ pc = "idle"
    /\ IF ~srvStream
       THEN /\ ret' = RetErr("request_status", 0, "No upstream connection")
            /\ UNCHANGED upOut
       ELSE /\ Len(upOut) < MaxSent
            /\ \E sent \in BOOLEAN :
                  IF sent
                  THEN /\ upOut' = Append(upOut, Sent("status", PoolId, 0, NoSolution))
                       /\ ret' = RetOk("request_status", "")
                  ELSE /\ ret' = RetErr("request_status", 0, "send")
                       /\ UNCHANGED upOut
    /\ UNCHANGED <<workers, nextId, lock, srvStream, srvError, srvJob, srvStatus,
                   produced, pc, cur, loc, inflight, pre, prePub, nSubmit, wret,
                   sockIn, hist, built, poolJob>>

\* send_keepalive writing to a socket that is not there.
SendKeepaliveUnguarded ==
    /\ pc = "idle"
    /\ Len(upOut) < MaxSent
    /\ upOut' = Append(upOut, Sent("keepalive", PoolId, 0, NoSolution))
    /\ ret' = RetOk("send_keepalive", "")
    /\ UNCHANGED <<workers, nextId, lock, srvStream, srvError, srvJob, srvStatus,
                   produced, pc, cur, loc, inflight, pre, prePub, nSubmit, wret,
                   sockIn, hist, built, poolJob>>

\* Server::send_keepalive
SendKeepalive ==
    /\ pc = "idle"
    /\ IF ~srvStream
       THEN /\ ret' = RetErr("send_keepalive", 0, "No upstream connection")
            /\ UNCHANGED upOut
       ELSE /\ Len(upOut) < MaxSent
            /\ \E sent \in BOOLEAN :
                  IF sent
                  THEN /\ upOut' = Append(upOut, Sent("keepalive", PoolId, 0, NoSolution))
                       /\ ret' = RetOk("send_keepalive", "")
                  ELSE /\ ret' = RetErr("send_keepalive", 0, "send")
                       /\ UNCHANGED upOut
    /\ UNCHANGED <<workers, nextId, lock, srvStream, srvError, srvJob, srvStatus,
                   produced, pc, cur, loc, inflight, pre, prePub, nSubmit, wret,
                   sockIn, hist, built, poolJob>>

\* Server::submit_share(solution, worker_id)
SubmitShare ==
    /\ pc = "idle"
    /\ \E worker_id \in 0..(MaxWorkers - 1), sol \in Solutions :
          IF ~srvStream
          THEN /\ ret' = RetErr("submit_share", 0, "No upstream connection")
               /\ UNCHANGED upOut
          ELSE /\ Len(upOut) < MaxSent
               /\ \E sent \in BOOLEAN :
                     IF sent
                     THEN /\ upOut' = Append(upOut,
                                Sent("submit", EncodeId(worker_id, sol), worker_id, sol))
                          /\ ret' = RetOk("submit_share", "")
                     ELSE /\ ret' = RetErr("submit_share", 0, "send")
                          /\ UNCHANGED upOut
    /\ UNCHANGED <<workers, nextId, lock, srvStream, srvError, srvJob, srvStatus,
                   produced, pc, cur, loc, inflight, pre, prePub, nSubmit, wret,
                   sockIn, hist, built, poolJob>>

\* What get_message hands process_message: a frame, nothing, or an error.
UpstreamInputs ==
    {[kind |-> "msg", frame |-> f] : f \in OtherFrames \cup SubmitFrames}
    \cup {[kind |-> "none", frame |-> NoFrame], [kind |-> "err", frame |-> NoFrame]}

\* Every failed response reported as an invalid response.
RpcErrorInvalid(f) == [code |-> 0 - 32600, message |-> "Invalid Response"]

\* The RpcError parsed from the error of a response.
RpcErrorOf(f) == [code |-> f.code, message |-> f.message]

\* The RpcError answered to a request of the upstream whose method the
\* session does not serve.
MethodNotFound(f) == [code |-> 0 - 32601, message |-> "Method not found"]

\* A handler that reads the message and keeps the job it has.
JobTemplateKept(f) == srvJob

\* The JobTemplate a 'job' request carries in its params and a
\* 'getjobtemplate' response in its result.
JobTemplateOf(f) == f.job

\* Server::process_message on one transport result, for everything but a
\* 'submit' response: the call runs to its return (or to a panic) in one
\* step.
process_message(input) ==
       LET f == input.frame
           P == "process_message"
       IN
       /\ ~(srvStream /\ input.kind = "msg" /\ f.id # StratumId /\ f.method = "submit")
       /\ IF ~srvStream
          THEN /\ ret' = RetErr(P, 0 - 32500, "No upstream connection")
               /\ UNCHANGED <<srvError, srvJob, srvStatus, pc>>
          ELSE IF input.kind = "err"
          THEN /\ srvError' = TRUE
               /\ ret' = RetErr(P, 0 - 32600, "Invalid Response")
               /\ UNCHANGED <<srvJob, srvStatus, pc>>
          ELSE IF input.kind = "none"
          THEN /\ ret' = RetOk(P, "None")
               /\ UNCHANGED <<srvError, srvJob, srvStatus, pc>>
          ELSE IF f.id = StratumId
          THEN IF f.method = "job"
               THEN /\ srvJob' = JobTemplateOf(f)
                    /\ ret' = RetOk(P, f.method)
                    /\ UNCHANGED <<srvError, srvStatus, pc>>
               ELSE /\ ret' = RetErr(P, MethodNotFound(f).code, MethodNotFound(f).message)
                    /\ UNCHANGED <<srvError, srvJob, srvStatus, pc>>
          ELSE IF f.method = "getjobtemplate"
          THEN IF f.hasResult
               THEN /\ srvJob' = JobTemplateOf(f)
                    /\ ret' = RetOk(P, f.method)
                    /\ UNCHANGED <<srvError, srvStatus, pc>>
               ELSE IF f.hasError
               THEN /\ srvError' = TRUE
                    /\ ret' = RetErr(P, RpcErrorOf(f).code, RpcErrorOf(f).message)
                    /\ UNCHANGED <<srvJob, srvStatus, pc>>
               ELSE /\ srvError' = TRUE
                    /\ pc' = "panicked"
                    /\ ret' = RetErr(P, 0, "panic")
                    /\ UNCHANGED <<srvJob, srvStatus>>
          ELSE IF f.method = "login"
          THEN IF f.hasResult
               THEN /\ ret' = RetOk(P, f.method)
                    /\ UNCHANGED <<srvError, srvJob, srvStatus, pc>>
               ELSE IF f.hasError
               THEN /\ srvError' = TRUE
                    /\ ret' = RetErr(P, RpcErrorOf(f).code, RpcErrorOf(f).message)
                    /\ UNCHANGED <<srvJob, srvStatus, pc>>
               ELSE /\ srvError' = TRUE
                    /\ pc' = "panicked"
                    /\ ret' = RetErr(P, 0, "panic")
                    /\ UNCHANGED <<srvJob, srvStatus>>
          ELSE IF f.method = "status"
          THEN IF f.hasResult
               THEN /\ srvStatus' = f.status
                    /\ ret' = RetOk(P, f.method)
                    /\ UNCHANGED <<srvError, srvJob, pc>>
               ELSE /\ pc' = "panicked"
                    /\ ret' = RetErr(P, 0, "panic")
                    /\ UNCHANGED <<srvError, srvJob, srvStatus>>
          ELSE IF f.method = "keepalive"
          THEN /\ ret' = RetOk(P, f.method)
               /\ UNCHANGED <<srvError, srvJob, srvStatus, pc>>
          ELSE /\ ret' = RetErr(P, 0 - 32600, "Invalid Response")
               /\ UNCHANGED <<srvError, srvJob, srvStatus, pc>>
       /\ cur' = IF srvStream /\ input.kind = "msg" THEN f ELSE NoFrame

\* The upstream unit polls the session with any transport result.
SrvMessage ==
    /\ pc = "idle"
    /\ \E input \in UpstreamInputs : process_message(input)
    /\ UNCHANGED <<workers, nextId, lock, srvStream, upOut, produced, loc,
                   inflight, pre, prePub, nSubmit, wret,
                   sockIn, hist, built, poolJob>>

\* A read that hands over the oldest message and discards the others.
get_message_drain(q) ==
    IF q = <<>>
    THEN [some |-> FALSE, rest |-> q]
    ELSE [some |-> TRUE, msg |-> Head(q), rest |-> <<>>]

\* get_message of the transport on a socket with the unread messages q:
\* the oldest complete message, if there is one, and what stays unread.
get_message(q) ==
    IF q = <<>>
    THEN [some |-> FALSE, rest |-> q]
    ELSE [some |-> TRUE, msg |-> Head(q), rest |-> Tail(q)]

\* The messages waiting unread on all inbound sockets together.
Pending ==
    LET RECURSIVE Sum(_)
        Sum(n) == IF n < 0 THEN 0 ELSE Len(sockIn.down[n]) + Sum(n - 1)
    IN  Len(sockIn.up) + Sum(MaxWorkers - 1)

\* The frames the node writes to the pool's socket.
ArrivingFrames ==
    {Frame(StratumId, "job", FALSE, 0, j, WorkerStatusNew) : j \in Jobs}
    \cup {Frame(PoolId, "keepalive", TRUE, 0, NoJob, WorkerStatusNew)}

\* The requests a miner writes to its socket.
ArrivingRequests ==
    {Request("submit", "ok", <<>>, CreditedSolution),
     Request("foo", "none", <<>>, NoSolution)}

\* The node writes a frame to the upstream socket.
ArriveUp ==
    /\ srvStream
    /\ Pending < MaxPending
    /\ \E f \in ArrivingFrames : sockIn' = [sockIn EXCEPT !.up = Append(@, f)]
    /\ UNCHANGED <<workers, nextId, lock, srvStream, srvError, srvJob, srvStatus,
                   upOut, produced, pc, cur, loc, inflight, pre, prePub, nSubmit,
                   ret, wret, hist, built, poolJob>>

\* A miner writes a request to its socket.
ArriveDown ==
    /\ Pending < MaxPending
    /\ \E i \in 1..Len(workers), req \in ArrivingRequests :
          sockIn' = [sockIn EXCEPT !.down[workers[i].id] = Append(@, req)]
    /\ UNCHANGED <<workers, nextId, lock, srvStream, srvError, srvJob, srvStatus,
                   upOut, produced, pc, cur, loc, inflight, pre, prePub, nSubmit,
                   ret, wret, hist, built, poolJob>>

\* The pool polls one worker: Worker::process_messages reads the worker's
\* socket, where the read fails or hands over what get_message finds.
WorkerRead ==
    /\ lock = "pool"
    /\ \E i \in 1..Len(workers), failed \in BOOLEAN :
          LET id    == workers[i].id
              m     == get_message(sockIn.down[id])
              input == IF failed THEN [kind |-> "err"]
                       ELSE IF m.some THEN [kind |-> "msg", req |-> m.msg]
                       ELSE [kind |-> "none"]
              r     == process_messages(workers[i], input)
          IN  /\ Len(r.w.out) <= MaxOut
              /\ Len(r.w.shares) <= MaxQueue
              /\ workers' = [workers EXCEPT ![i] = r.w]
              /\ sockIn' = IF failed THEN sockIn
                           ELSE [sockIn EXCEPT !.down[id] = m.rest]
              /\ wret' = [ret |-> r.ret, input |-> input, i |-> i,
                          before |-> workers[i]]
              /\ hist' = Enqueued(workers[i], r.w)
              /\ lock' = IF r.ret = "panic" THEN "poisoned" ELSE lock
    /\ UNCHANGED <<nextId, srvStream, srvError, srvJob, srvStatus, upOut,
                   produced, pc, cur, loc, inflight, pre, prePub, nSubmit, ret,
                   built, poolJob>>

\* The upstream unit polls the session: Server::process_message reads the
\* upstream socket, where the read fails or hands over what get_message
\* finds.
SrvRead ==
    /\ pc = "idle"
    /\ \E failed \in BOOLEAN :
          LET m     == get_message(sockIn.up)
              input == IF failed THEN [kind |-> "err", frame |-> NoFrame]
                       ELSE IF m.some THEN [kind |-> "msg", frame |-> m.msg]
                       ELSE [kind |-> "none", frame |-> NoFrame]
          IN  /\ process_message(input)
              /\ sockIn' = IF failed \/ ~srvStream THEN sockIn
                           ELSE [sockIn EXCEPT !.up = m.rest]
    /\ UNCHANGED <<workers, nextId, lock, srvStream, upOut, produced, loc,
                   inflight, pre, prePub, nSubmit, wret, hist, built, poolJob>>

\* The error code of "Solution submitted too late".
SolutionTooLate == -32503

\* The 'submit' branch running without taking the mutex.
ServerHoldNone == "free"

\* The lock as the upstream unit leaves it by workers.lock().
ServerHold == "server"

\* Credit only for a response whose id a submit_share of this socket sent.
CreditIfSent(ws, w_id, frame) ==
    IF ~(\E i \in 1..Len(upOut) : upOut[i].method = "submit" /\ upOut[i].id = frame.id)
    THEN ws
    ELSE IF frame.hasResult
    THEN [ws EXCEPT ![w_id + 1].status.accepted = @ + 1]
    ELSE IF frame.code = SolutionTooLate
    THEN [ws EXCEPT ![w_id + 1].status.stale = @ + 1]
    ELSE [ws EXCEPT ![w_id + 1].status.rejected = @ + 1]

\* Credit with the accepted counter stepped twice.
CreditTwice(ws, w_id, frame) ==
    IF frame.hasResult
    THEN [ws EXCEPT ![w_id + 1].status.accepted = @ + 2]
    ELSE IF frame.code = SolutionTooLate
    THEN [ws EXCEPT ![w_id + 1].status.stale = @ + 1]
    ELSE [ws EXCEPT ![w_id + 1].status.rejected = @ + 1]

\* Credit with every error counted as a rejection.
CreditIgnoringCode(ws, w_id, frame) ==
    IF frame.hasResult
    THEN [ws EXCEPT ![w_id + 1].status.accepted = @ + 1]
    ELSE [ws EXCEPT ![w_id + 1].status.rejected = @ + 1]

\* The counter update of the 'submit' branch for the worker at index w_id.
Credit(ws, w_id, frame) ==
    IF frame.hasResult
    THEN [ws EXCEPT ![w_id + 1].status.accepted = @ + 1]
    ELSE IF frame.code = SolutionTooLate
    THEN [ws EXCEPT ![w_id + 1].status.stale = @ + 1]
    ELSE [ws EXCEPT ![w_id + 1].status.rejected = @ + 1]

\* The outcome recorded in the share.
SubmitResultOf(frame) == IF frame.hasResult THEN Accept ELSE Reject

\* The Share::new call of the 'submit' branch.
BuildShare(ws, l, frame) ==
    LET worker == ws[l.w_id + 1]
    IN  ShareNew(l.d.job_id, PoolId, worker.addr, l.w_id,
                 worker.status.difficulty, WorkerLoginName(worker),
                 SubmitResultOf(frame), l.d.height)

\* What process_message returns once send_data has returned.
AfterPublish(sent, method) == RetOk("process_message", method)

\* A 'submit' response is taken from the socket.
SrvSubmit ==
    /\ pc = "idle"
    /\ srvStream
    /\ nSubmit < MaxShares
    /\ \E f \in SubmitFrames : cur' = f
    /\ pc' = "lock"
    /\ nSubmit' = nSubmit + 1
    /\ pre' = Snapshot(workers)
    /\ prePub' = produced
    /\ ret' = RetPending
    /\ UNCHANGED <<workers, nextId, lock, srvStream, srvError, srvJob, srvStatus,
                   upOut, produced, loc, inflight, wret,
                   sockIn, hist, built, poolJob>>

\* workers.lock(): blocks until the mutex is free.
SrvLock ==
    /\ pc = "lock"
    /\ lock = "free"
    /\ lock' = ServerHold
    /\ pc' = "decode"
    /\ pre' = Snapshot(workers)
    /\ UNCHANGED <<workers, nextId, srvStream, srvError, srvJob, srvStatus, upOut,
                   produced, cur, loc, inflight, prePub, nSubmit, ret, wret,
                   sockIn, hist, built, poolJob>>

\* The id is decoded and the worker looked up.
SrvDecode ==
    /\ pc = "decode"
    /\ LET d    == DecodeId(cur.id)
           w_id == IF d.kind = "ok" THEN Position(workers, d.w_id_usz) ELSE 0 - 1
       IN  IF d.kind = "panic"
           THEN /\ pc' = "panicked"
                /\ lock' = IF lock = "server" THEN "poisoned" ELSE lock
                /\ ret' = RetErr("process_message", 0, "panic")
                /\ UNCHANGED <<srvError, loc, hist>>
           ELSE IF d.kind = "invalid"
           THEN /\ pc' = "done"
                /\ lock' = IF lock = "server" THEN "free" ELSE lock
                /\ ret' = RetErr("process_message", 0 - 1, "Invalid Worker ID")
                /\ UNCHANGED <<srvError, loc, hist>>
           ELSE IF w_id < 0
           THEN /\ pc' = "done"
                /\ lock' = IF lock = "server" THEN "free" ELSE lock
                /\ srvError' = TRUE
                /\ loc' = [d |-> d, w_id |-> w_id]
                /\ ret' = RetErr("process_message", 0 - 32600, "Null Worker ID")
                /\ UNCHANGED hist
           ELSE /\ pc' = "credit"
                /\ loc' = [d |-> d, w_id |-> w_id]
                /\ hist' = [hist EXCEPT ![IntOfNum(d.w_id_usz)].resolved = @ + 1]
                /\ UNCHANGED <<lock, srvError, ret>>
    /\ UNCHANGED <<workers, nextId, srvStream, srvJob, srvStatus, upOut, produced,
                   cur, inflight, pre, prePub, nSubmit, wret,
                   sockIn, built, poolJob>>

\* The worker's counter is incremented.
SrvCredit ==
    /\ pc = "credit"
    /\ workers' = Credit(workers, loc.w_id, cur)
    /\ pc' = IF cur.hasResult THEN "ack" ELSE "share"
    /\ UNCHANGED <<nextId, lock, srvStream, srvError, srvJob, srvStatus, upOut,
                   produced, cur, loc, inflight, pre, prePub, nSubmit, ret, wret,
                   sockIn, hist, built, poolJob>>

\* workers_l[w_id].send_ok("submit")
SrvAck ==
    /\ pc = "ack"
    /\ workers' = [workers EXCEPT ![loc.w_id + 1] = send_ok(@, cur.method)]
    /\ pc' = "share"
    /\ UNCHANGED <<nextId, lock, srvStream, srvError, srvJob, srvStatus, upOut,
                   produced, cur, loc, inflight, pre, prePub, nSubmit, ret, wret,
                   sockIn, hist, built, poolJob>>

\* Share::new
SrvShare ==
    /\ pc = "share"
    /\ LET sh == BuildShare(workers, loc, cur)
       IN  IF sh.ok
           THEN /\ inflight' = sh
                /\ pc' = "publish"
                /\ UNCHANGED <<lock, ret>>
           ELSE /\ pc' = "panicked"
                /\ lock' = IF lock = "server" THEN "poisoned" ELSE lock
                /\ ret' = RetErr("process_message", 0, "panic")
                /\ UNCHANGED inflight
    /\ UNCHANGED <<workers, nextId, srvStream, srvError, srvJob, srvStatus, upOut,
                   produced, cur, loc, pre, prePub, nSubmit, wret,
                   sockIn, hist, built, poolJob>>

\* self.kafka.send_data returns, sent or failed; its result is dropped and
\* the call returns, which releases the lock.
SrvPublish ==
    /\ pc = "publish"
    /\ \E sent \in BOOLEAN :
          /\ inflight' = Sending(inflight, sent)
          /\ ret' = AfterPublish(sent, cur.method)
    /\ produced' = produced + 1
    /\ lock' = IF lock = "server" THEN "free" ELSE lock
    /\ pc' = "done"
    /\ UNCHANGED <<workers, nextId, srvStream, srvError, srvJob, srvStatus, upOut,
                   cur, loc, pre, prePub, nSubmit, wret,
                   sockIn, hist, built, poolJob>>

\* The caller has the result of process_message; the call's frame and
\* locals are gone.
SrvReturn ==
    /\ pc = "done"
    /\ pc' = "idle"
    /\ cur' = NoFrame
    /\ loc' = NoLoc
    /\ pre' = NoSnapshot
    /\ prePub' = 0
    /\ ret' = RetOk("new", "")
    /\ inflight' = NoShare
    /\ UNCHANGED <<workers, nextId, lock, srvStream, srvError, srvJob, srvStatus,
                   upOut, produced, nSubmit, wret,
                   sockIn, hist, built, poolJob>>

\* The node answers a submit request with the id the request carried.
SrvEcho ==
    /\ pc = "idle"
    /\ srvStream
    /\ nSubmit < MaxShares
    /\ \E i \in 1..Len(upOut), r \in SubmitOutcomes :
          /\ upOut[i].method = "submit"
          /\ cur' = Frame(upOut[i].id, "submit", r[1], r[2], NoJob, WorkerStatusNew)
    /\ pc' = "lock"
    /\ nSubmit' = nSubmit + 1
    /\ pre' = Snapshot(workers)
    /\ prePub' = produced
    /\ ret' = RetPending
    /\ UNCHANGED <<workers, nextId, lock, srvStream, srvError, srvJob, srvStatus,
                   upOut, produced, loc, inflight, wret,
                   sockIn, hist, built, poolJob>>

\* The upstream unit crediting submit responses while the pool accepts,
\* polls and drops workers.
Next ==
    \/ PoolLock
    \/ PoolUnlock
    \/ AcceptWorker
    \/ RemoveWorker
    \/ WorkerPoll
    \/ Connect
    \/ SrvSubmit
    \/ SrvLock
    \/ SrvDecode
    \/ SrvCredit
    \/ SrvAck
    \/ SrvShare
    \/ SrvPublish
    \/ SrvReturn

Spec == Init /\ [][Next]_vars

\* Submit requests going upstream and the node echoing their ids.
NextCodec ==
    \/ Connect
    \/ SubmitShare
    \/ SrvEcho
    \/ SrvLock
    \/ SrvDecode
    \/ SrvReturn

SpecCodec == Init /\ [][NextCodec]_vars

\* The upstream session on its own: connect, requests, every frame.
NextSession ==
    \/ Connect
    \/ RequestStatus
    \/ SendKeepalive
    \/ SubmitShare
    \/ SrvMessage

SpecSession == Init /\ [][NextSession]_vars

\* The upstream session with its submits and their responses, over a
\* registry that only grows.
NextReplay ==
    \/ PoolLock
    \/ PoolUnlock
    \/ AcceptWorker
    \/ Connect
    \/ SubmitShare
    \/ SrvSubmit
    \/ SrvLock
    \/ SrvDecode
    \/ SrvCredit
    \/ SrvAck
    \/ SrvShare
    \/ SrvPublish
    \/ SrvReturn

SpecReplay == Init /\ [][NextReplay]_vars

\* ------------------------------------------------------------------------
\* The share record on its own (kafka/share.rs, kafka/serialize.rs)
\* ------------------------------------------------------------------------

\* Pool ids: "Pool-1", "Pool", "Pool-x", "Pool-70000".
ServerIds ==
    {<<80, 111, 111, 108, 45, 49>>,
     <<80, 111, 111, 108>>,
     <<80, 111, 111, 108, 45, 120>>,
     <<80, 111, 111, 108, 45, 55, 48, 48, 48, 48>>}

\* Worker addresses: "10.0.0.2:5000", "1.2.3.4:80", "255.0.128.7:1",
\* "10.0.0.2", "10.0.0:5000", "10.0.0.300:1".
Addrs ==
    {<<49, 48, 46, 48, 46, 48, 46, 50, 58, 53, 48, 48, 48>>,
     <<49, 46, 50, 46, 51, 46, 52, 58, 56, 48>>,
     <<50, 53, 53, 46, 48, 46, 49, 50, 56, 46, 55, 58, 49>>,
     <<49, 48, 46, 48, 46, 48, 46, 50>>,
     <<49, 48, 46, 48, 46, 48, 58, 53, 48, 48, 48>>,
     <<49, 48, 46, 48, 46, 48, 46, 51, 48, 48, 58, 49>>}

\* Full names: "al.r1", one of 46 letters, one of 45 letters and a
\* two-byte character, one of 49 characters.
Fullnames ==
    {<<97, 108, 46, 114, 49>>,
     <<97, 46>> \o Repeat(99, 44),
     <<97, 46>> \o Repeat(99, 43) \o <<195, 169>>,
     <<97, 46, 98, 46>> \o Repeat(99, 45)}

\* The arguments of Share::new.
ShareArgs ==
    [job_id : {42}, server_id : ServerIds, worker_addr : Addrs, worker_id : {0, 1},
     difficulty : {4}, fullname : Fullnames, result : {Reject, Accept},
     height : {1000, 0 - 1}, timestamp : {1600000000}]

\* A caller about to construct a share from any arguments.
InitShare ==
    /\ built \in {[NoBuild EXCEPT !.step = "args", !.args = a] : a \in ShareArgs}
    /\ workers = <<>>
    /\ nextId = 0
    /\ lock = "free"
    /\ srvStream = FALSE
    /\ srvError = FALSE
    /\ srvJob = NoJob
    /\ srvStatus = WorkerStatusNew
    /\ upOut = <<>>
    /\ produced = 0
    /\ pc = "idle"
    /\ cur = NoFrame
    /\ loc = NoLoc
    /\ inflight = NoShare
    /\ pre = NoSnapshot
    /\ prePub = 0
    /\ nSubmit = 0
    /\ ret = RetOk("new", "")
    /\ wret = NoCall
    /\ sockIn = NoPending
    /\ hist = NoHistory
    /\ poolJob = NoJob

\* Share::new on the arguments; a panic of the construction ends the caller.
NewShare ==
    /\ built.step = "args"
    /\ LET a  == built.args
           sh == ShareNew(a.job_id, a.server_id, a.worker_addr, a.worker_id,
                          a.difficulty, a.fullname, a.result, a.height)
       IN  built' = IF sh.ok
                    THEN [built EXCEPT !.step = "built",
                                       !.share = [ok |-> TRUE,
                                                  share |-> sh.share @@
                                                     [timestamp |-> a.timestamp]]]
                    ELSE [built EXCEPT !.step = "panicked"]
    /\ UNCHANGED <<workers, nextId, lock, srvStream, srvError, srvJob, srvStatus,
                   upOut, produced, pc, cur, loc, inflight, pre, prePub, nSubmit,
                   ret, wret, sockIn, hist, poolJob>>

\* The worker sessions alone: accepted into the registry and polled.
NextWorker ==
    \/ PoolLock
    \/ PoolUnlock
    \/ AcceptWorker
    \/ WorkerRecv

SpecWorker == Init /\ [][NextWorker]_vars

\* The submissions of the worker sessions: enqueued and handed out.
NextQueue ==
    \/ PoolLock
    \/ PoolUnlock
    \/ AcceptWorker
    \/ WorkerSubmit
    \/ GetShares

SpecQueue == Init /\ [][NextQueue]_vars

\* bincode's fixed-width integer: w bytes, least significant first, a
\* negative value in two's complement.
RECURSIVE LE(_, _)
LE(n, w) == IF w = 0 THEN <<>> ELSE <<n % 256>> \o LE(n \div 256, w - 1)

\* The unsigned value of little-endian bytes.
RECURSIVE FromLE(_)
FromLE(bs) == IF bs = <<>> THEN 0 ELSE bs[1] + 256 * FromLE(Tail(bs))

\* The signed value of little-endian bytes.
SignedFromLE(bs) ==
    LET top == bs[Len(bs)]
    IN  IF top < 128 THEN FromLE(bs)
        ELSE FromLE([bs EXCEPT ![Len(bs)] = 0]) + (top - 256) * (256 ^ (Len(bs) - 1))

Reverse(s) == [i \in 1..Len(s) |-> s[Len(s) + 1 - i]]

\* The number of bytes of the UTF-8 character that starts with byte b, 0
\* if none does.
Utf8Width(b) ==
    IF b < 128 THEN 1
    ELSE IF b \in 192..223 THEN 2
    ELSE IF b \in 224..239 THEN 3
    ELSE IF b \in 240..247 THEN 4
    ELSE 0

\* Characters read from position pos of a byte stream until n more are
\* read: each by the width its first byte announces.
RECURSIVE TakeAcc(_, _, _, _)
TakeAcc(bs, pos, n, acc) ==
    IF n = 0
    THEN [ok |-> TRUE, chars |-> acc, rest |-> SubSeq(bs, pos, Len(bs))]
    ELSE IF pos > Len(bs) \/ Utf8Width(bs[pos]) = 0
            \/ pos + Utf8Width(bs[pos]) - 1 > Len(bs)
    THEN [ok |-> FALSE]
    ELSE TakeAcc(bs, pos + Utf8Width(bs[pos]), n - 1,
                 Append(acc, SubSeq(bs, pos, pos + Utf8Width(bs[pos]) - 1)))

\* A read that takes every element of the array for one byte.
TakeBytes(bs, n) ==
    IF Len(bs) < n THEN [ok |-> FALSE]
    ELSE [ok    |-> TRUE,
          chars |-> [i \in 1..n |-> <<bs[i]>>],
          rest  |-> SubSeq(bs, n + 1, Len(bs))]

\* The next n characters of a byte stream and the bytes behind them.
TakeChars(bs, n) == TakeAcc(bs, 1, n, <<>>)

\* The elements of a sequence of byte strings one after the other.
RECURSIVE Flatten(_)
Flatten(ss) == IF ss = <<>> THEN <<>> ELSE ss[1] \o Flatten(Tail(ss))

\* LargeArray::serialize for [char; FULLNAME_LIMIT]: a tuple of the
\* elements, each char as its UTF-8 bytes, without a length in front.
SerializeArray(name) ==
    Flatten(TakeChars(name, FULLNAME_LIMIT).chars)

\* serialize(share) of ShareWrapper::new: the fields in the order of the
\* struct.
serialize(sh) ==
    LE(sh.job_id, 8) \o LE(sh.worker_hash_id, 8) \o LE(sh.difficulty, 8)
    \o Reverse(sh.ip) \o LE(sh.user_id, 4) \o LE(sh.timestamp, 4)
    \o LE(sh.blkbits, 4) \o LE(sh.result, 4) \o LE(sh.height, 4)
    \o LE(sh.share_diff, 8) \o LE(sh.server_id, 2)
    \o SerializeArray(sh.fullname)

\* The bytes of the fields in front of the name.
HeaderLen == 58

\* deserialize::<Share>(bytes): the fields read back in the order of the
\* struct, the name by LargeArray::deserialize as FULLNAME_LIMIT elements.
deserialize(bs) ==
    IF Len(bs) < HeaderLen THEN NoShare
    ELSE LET F(from, w) == SubSeq(bs, from, from + w - 1)
             name == TakeChars(SubSeq(bs, HeaderLen + 1, Len(bs)), FULLNAME_LIMIT)
         IN  IF ~name.ok THEN NoShare
             ELSE [ok    |-> TRUE,
                   share |-> [job_id         |-> FromLE(F(1, 8)),
                              worker_hash_id |-> SignedFromLE(F(9, 8)),
                              difficulty     |-> FromLE(F(17, 8)),
                              ip             |-> Reverse(F(25, 4)),
                              user_id        |-> SignedFromLE(F(29, 4)),
                              timestamp      |-> FromLE(F(33, 4)),
                              blkbits        |-> FromLE(F(37, 4)),
                              result         |-> SignedFromLE(F(41, 4)),
                              height         |-> SignedFromLE(F(45, 4)),
                              share_diff     |-> FromLE(F(49, 8)),
                              server_id      |-> FromLE(F(57, 2)),
                              fullname       |-> Flatten(name.chars)]]

\* ShareWrapper::new on the constructed share.
EncodeShare ==
    /\ built.step = "built"
    /\ built' = [built EXCEPT !.step = "encoded",
                              !.bytes = serialize(built.share.share)]
    /\ UNCHANGED <<workers, nextId, lock, srvStream, srvError, srvJob, srvStatus,
                   upOut, produced, pc, cur, loc, inflight, pre, prePub, nSubmit,
                   ret, wret, sockIn, hist, poolJob>>

\* A consumer reads the record back.
DecodeShare ==
    /\ built.step = "encoded"
    /\ built' = [built EXCEPT !.step = "decoded",
                              !.decoded = deserialize(built.bytes)]
    /\ UNCHANGED <<workers, nextId, lock, srvStream, srvError, srvJob, srvStatus,
                   upOut, produced, pc, cur, loc, inflight, pre, prePub, nSubmit,
                   ret, wret, sockIn, hist, poolJob>>

\* A share constructed from any arguments, encoded and decoded.
NextShare ==
    \/ NewShare
    \/ EncodeShare
    \/ DecodeShare

SpecShare == InitShare /\ [][NextShare]_vars

\* The upstream session reading every kind of message, 'submit' responses
\* for the workers of the registry among them.
NextJob ==
    \/ PoolLock
    \/ PoolUnlock
    \/ AcceptWorker
    \/ Connect
    \/ SrvMessage
    \/ SrvSubmit
    \/ SrvLock
    \/ SrvDecode
    \/ SrvCredit
    \/ SrvAck
    \/ SrvShare
    \/ SrvPublish
    \/ SrvReturn

SpecJob == Init /\ [][NextJob]_vars

\* Both kinds of session polled on sockets that fill up behind them.
NextPoll ==
    \/ PoolLock
    \/ PoolUnlock
    \/ AcceptWorker
    \/ ArriveDown
    \/ WorkerRead
    \/ Connect
    \/ ArriveUp
    \/ SrvRead

SpecPoll == Init /\ [][NextPoll]_vars

\* The worker sessions polled, given difficulties and pushed the current
\* job.
NextDispatch ==
    \/ PoolLock
    \/ PoolUnlock
    \/ AcceptWorker
    \/ WorkerAsk
    \/ SetDifficulty
    \/ AdvanceJob
    \/ SendJob

SpecDispatch == Init /\ [][NextDispatch]_vars

\* The worker sessions polled, drained and marked as failed by the pool in
\* any order.
NextErrored ==
    \/ PoolLock
    \/ PoolUnlock
    \/ AcceptWorker
    \/ WorkerRecv
    \/ SetError
    \/ GetShares

SpecErrored == Init /\ [][NextErrored]_vars

\* The upstream session and the pool's thread on a registry that workers
\* join and log in to.
NextFair ==
    \/ PoolLock
    \/ PoolUnlock
    \/ AcceptWorker
    \/ WorkerPoll
    \/ Connect
    \/ SrvSubmit
    \/ SrvLock
    \/ SrvDecode
    \/ SrvCredit
    \/ SrvAck
    \/ SrvShare
    \/ SrvPublish
    \/ SrvReturn

\* A call of process_message that has the lock moves on to its next
\* statement; the step leaves the place it is at.
SrvRuns ==
    /\ pc \in {"decode", "credit", "ack", "share", "publish", "done"}
    /\ pc' \in {"credit", "ack", "share", "publish", "done", "idle", "panicked"} \ {pc}

\* The registry shared by two threads that both keep running: a call of
\* process_message that can take its next step takes it, and the pool's
\* thread, which asks for the mutex again and again, gets it if the mutex
\* is free again and again.
SpecFair ==
    /\ Init
    /\ [][NextFair]_vars
    /\ WF_vars(SrvLock)
    /\ WF_pc(SrvRuns)
    /\ SF_vars(PoolLock)

\* Submissions on their way through the pool: queued by a worker that may
\* or may not have logged in, handed over, and credited when the response
\* of the node arrives.
NextPipeline ==
    \/ PoolLock
    \/ PoolUnlock
    \/ AcceptWorker
    \/ EarlySubmit
    \/ GetShares
    \/ Connect
    \/ SrvSubmit
    \/ SrvLock
    \/ SrvDecode
    \/ SrvCredit
    \/ SrvAck
    \/ SrvShare
    \/ SrvPublish
    \/ SrvReturn

SpecPipeline == Init /\ [][NextPipeline]_vars

\* ------------------------------------------------------------------------
\* Properties
\* ------------------------------------------------------------------------

\* The worker id the response's correlation id decodes to.
TargetId == IntOfNum(loc.d.w_id_usz)

\* The call handles a 'submit' response whose id decoded to a worker that
\* was in the registry when the lock was taken.
KnownTarget ==
    /\ cur.method = "submit"
    /\ loc.d.kind = "ok"
    /\ TargetId \in DOMAIN pre

\* Workers of the registry that were in it when the call began.
Present == WorkerIds(workers) \cap DOMAIN pre

\* The counters of worker id are those of the snapshot plus the given steps.
CountersAre(id, da, dr, ds) ==
    LET st == ById(workers, id).status
    IN  /\ st.accepted = pre[id].accepted + da
        /\ st.rejected = pre[id].rejected + dr
        /\ st.stale = pre[id].stale + ds

\* C1: a 'submit' response with a result for a known worker steps that
\* worker's accepted counter by exactly 1; its rejected and stale counters
\* and all counters of the other workers stay as they were.
C1_AcceptedByOne ==
    (/\ KnownTarget
     /\ cur.hasResult
     /\ pc \in {"ack", "share", "publish", "done", "panicked"})
    => \A id \in Present :
          CountersAre(id, IF id = TargetId THEN 1 ELSE 0, 0, 0)

C1_Witness ==
    /\ KnownTarget
    /\ cur.hasResult
    /\ pc = "done"
    /\ ret = RetOk("process_message", "submit")
    /\ Len(workers) = 2
    /\ TargetId \in Present
    /\ ById(workers, TargetId).status.accepted = 2

\* C2: a 'submit' response without a result for a known worker steps stale
\* by exactly 1 when the error code is -32503 and rejected by exactly 1 for
\* any other code; the other two counters of the worker, and the counters
\* of the other workers, stay as they were.
C2_StaleOrRejectedByOne ==
    (/\ KnownTarget
     /\ ~cur.hasResult
     /\ pc \in {"share", "publish", "done", "panicked"})
    => \A id \in Present :
          IF id # TargetId THEN CountersAre(id, 0, 0, 0)
          ELSE IF cur.code = 0 - 32503 THEN CountersAre(id, 0, 0, 1)
          ELSE CountersAre(id, 0, 1, 0)

C2_Witness ==
    /\ KnownTarget
    /\ ~cur.hasResult
    /\ cur.code = 0 - 32503
    /\ pc = "done"
    /\ Len(workers) = 2
    /\ TargetId \in Present
    /\ ById(workers, TargetId).status.stale = 1
    /\ ById(workers, TargetId).status.rejected = 1

\* C3: a 'submit' response whose well-formed id names no worker of the
\* registry returns the "Null Worker ID" error (code -32600); no counter
\* changes, no acknowledgement is sent and no share goes to the producer.
C3_NullWorkerId ==
    (/\ cur.method = "submit"
     /\ loc.d.kind = "ok"
     /\ TargetId \notin DOMAIN pre)
    => /\ pc = "done"
       /\ ret = RetErr("process_message", 0 - 32600, "Null Worker ID")
       /\ \A id \in Present :
             /\ CountersAre(id, 0, 0, 0)
             /\ Acks(ById(workers, id)) = pre[id].acks
       /\ produced = prePub
       /\ inflight = NoShare

C3_Witness ==
    /\ cur.method = "submit"
    /\ loc.d.kind = "ok"
    /\ TargetId \notin DOMAIN pre
    /\ pc = "done"
    /\ Len(workers) = 2
    /\ Present = WorkerIds(workers)

\* C4: a 'submit' response with a malformed correlation id (not base64,
\* not UTF-8, fewer than 5 fields, a field that is no number) returns the
\* "Invalid Worker ID" error without a crash: the registry lock is released
\* and no counter changes.
C4_MalformedIdRejected ==
    (/\ cur.method = "submit"
     /\ cur.id \in MalformedIds
     /\ pc \in {"done", "panicked"})
    => /\ pc = "done"
       /\ ret = RetErr("process_message", 0 - 1, "Invalid Worker ID")
       /\ lock # "poisoned"
       /\ \A id \in Present : CountersAre(id, 0, 0, 0)

\* C5: decoding the id that submit_share built for (worker id, height,
\* job id, nonce, edge bits) gives back the same five values, for heights
\* above 2^31 - 1 too.
C5_IdRoundTrip ==
    \A i \in 1..Len(upOut) :
        upOut[i].method = "submit" =>
            LET d == DecodeId(upOut[i].id)
            IN  /\ d.kind = "ok"
                /\ d.w_id_usz = NumOfInt(upOut[i].worker_id)
                /\ NumOfInt(d.height) = upOut[i].params.height
                /\ d.job_id = upOut[i].params.job_id
                /\ d.nonce = upOut[i].params.nonce
                /\ d.edge_bits = upOut[i].params.edge_bits

\* C6: the share of an accepted 'submit' response has user_id equal to the
\* worker id decoded from the correlation id, server_id equal to the number
\* in the pool id, and outcome Accept.
C6_ShareNamesWorker ==
    (/\ KnownTarget
     /\ cur.hasResult
     /\ pc = "done"
     /\ inflight.ok)
    => /\ inflight.share.user_id = TargetId
       /\ inflight.share.server_id = ServerCfgId
       /\ inflight.share.result = Accept

\* C7: every 'submit' response resolved to a known worker hands exactly one
\* share to the producer, with the job id and height decoded from the id
\* and outcome Accept for a result, Reject for an error.
C7_OneSharePerResponse ==
    (/\ KnownTarget
     /\ pc \in {"done", "panicked"})
    => /\ pc = "done"
       /\ produced = prePub + 1
       /\ inflight.ok
       /\ inflight.share.job_id = loc.d.job_id
       /\ inflight.share.height = loc.d.height
       /\ inflight.share.result = IF cur.hasResult THEN Accept ELSE Reject

\* C8: when the producer fails to send the share, process_message does not
\* return success.
C8_PublishFailureReported ==
    (/\ pc = "done"
     /\ inflight.ok
     /\ ~inflight.sent)
    => ~ret.ok

\* C9: while a share is being published, the registry lock can be taken by
\* the pool's side.
C9_LockFreeWhilePublishing == (pc = "publish") => ENABLED PoolLock

\* C10: between the increment of the accepted counter and the "ok"
\* acknowledgement the upstream unit holds the registry lock, and the only
\* step the system can take is that acknowledgement to the credited worker.
C10_CreditAckAtomic ==
    [][(pc = "ack") =>
          /\ lock = "server"
          /\ lock' = lock
          /\ pc' = "share"
          /\ workers' = [workers EXCEPT ![loc.w_id + 1] = send_ok(@, "submit")]
          /\ workers[loc.w_id + 1].id = TargetId
          /\ workers[loc.w_id + 1].status.accepted = pre[TargetId].accepted + 1
          /\ Acks(workers'[loc.w_id + 1]) = pre[TargetId].acks + 1]_vars

C10_Witness ==
    /\ pc = "share"
    /\ cur.hasResult
    /\ Len(workers) = 2
    /\ loc.w_id = 1
    /\ Acks(workers[2]) = 2

\* C11: a 'submit' response whose decoded worker id is not in the registry
\* leaves the session's error flag as it was before the message, so that a
\* connect() on a connected session stays a no-op.
C11_NullWorkerKeepsSession ==
    [][(/\ pc = "decode"
        /\ pc' = "done"
        /\ ret' = RetErr("process_message", 0 - 32600, "Null Worker ID"))
       => srvError' = srvError]_vars

\* Submits of the current socket that carry the id of the response at hand.
SentWithId == {i \in 1..Len(upOut) : upOut[i].method = "submit" /\ upOut[i].id = cur.id}

\* C12: the session keeps no state about submits in flight.  submit_share
\* changes nothing but the outgoing stream, and a 'submit' response for a
\* known worker is credited by what the frame says, whether its id was
\* sent by a submit_share never, once, or is seen for the second time.
C12_StatelessSubmits ==
    /\ [](/\ KnownTarget
          /\ pc \in {"share", "publish", "done"}
          => \A id \in Present :
                IF id # TargetId THEN CountersAre(id, 0, 0, 0)
                ELSE IF cur.hasResult THEN CountersAre(id, 1, 0, 0)
                ELSE IF cur.code = 0 - 32503 THEN CountersAre(id, 0, 0, 1)
                ELSE CountersAre(id, 0, 1, 0))
    /\ [][(ret'.op = "submit_share" /\ (ret' # ret \/ upOut' # upOut))
          => UNCHANGED <<workers, nextId, lock, srvStream, srvError, srvJob,
                         srvStatus, produced, pc, cur, loc, inflight, pre,
                         prePub, nSubmit>>]_vars

C12_Witness ==
    /\ KnownTarget
    /\ cur.hasResult
    /\ pc = "done"
    /\ nSubmit = 2
    /\ Cardinality(SentWithId) = 1
    /\ TargetId \in Present
    /\ ById(workers, TargetId).status.accepted = 2

\* C13: connect() on a session that has a socket and no error returns
\* success and changes nothing: no new socket, no 'login', no
\* 'getjobtemplate', no field of the session.
C13_ConnectIdempotent ==
    [][(~srvError /\ srvStream /\ ret'.op = "connect")
       => /\ ret' = RetOk("connect", "")
          /\ UNCHANGED SessionRest]_vars

C13_Witness ==
    /\ ret = RetOk("connect", "")
    /\ srvStream
    /\ ~srvError
    /\ Len(upOut) = 3
    /\ upOut[3].method = "submit"

\* C14: a connect() that is not a no-op opens the socket, sends 'login',
\* then sends 'getjobtemplate'.  A failure at any of the three sets the
\* error flag, returns the failure and ends the call: nothing is sent after
\* a failed send.  On success the session has a socket and no error.
C14_ConnectSteps ==
    [][((srvError \/ ~srvStream) /\ ret'.op = "connect")
       => LET login == Sent("login", PoolId, 0, NoSolution)
              job   == Sent("getjobtemplate", PoolId, 0, NoSolution)
          IN  IF ret'.ok
              THEN /\ srvStream'
                   /\ ~srvError'
                   /\ upOut' = <<login, job>>
              ELSE /\ srvError'
                   /\ \/ /\ ret'.val = "connect"
                         /\ UNCHANGED <<srvStream, upOut>>
                      \/ /\ ret'.val = "send"
                         /\ srvStream'
                         /\ upOut' \in {<<>>, <<login>>}]_vars

C14_Witness ==
    /\ ret = RetErr("connect", 0, "send")
    /\ srvStream
    /\ srvError
    /\ upOut = <<Sent("login", PoolId, 0, NoSolution)>>

\* C15: without a socket request_status, send_keepalive and submit_share
\* fail with "No upstream connection", send nothing and change nothing,
\* and process_message fails with code -32500.
C15_NoConnection ==
    [][~srvStream
       => /\ ret'.op \in {"request_status", "send_keepalive", "submit_share"}
             => /\ ret' = RetErr(ret'.op, 0, "No upstream connection")
                /\ UNCHANGED SessionRest
          /\ ret'.op = "process_message"
             => /\ ret' = RetErr("process_message", 0 - 32500, "No upstream connection")
                /\ UNCHANGED SessionRest]_vars

C15_Witness ==
    /\ ~srvStream
    /\ upOut = <<>>
    /\ ret = RetErr("send_keepalive", 0, "No upstream connection")

\* C16: a frame is a request of the node exactly when its id is the pool's
\* own id (get_id), and a response otherwise; a 'job' frame with that id
\* replaces the job template.
C16_RequestByPoolId ==
    (/\ ret.op = "process_message"
     /\ srvStream
     /\ cur.method = "job")
    => IF cur.id = PoolId
       THEN ret = RetOk("process_message", "job") /\ srvJob = cur.job
       ELSE ret = RetErr("process_message", 0 - 32600, "Invalid Response")

\* C16, amended: a frame is a request of the node exactly when its id is
\* the string "Stratum", and a response otherwise, the pool's own id
\* included; a 'job' frame with the id "Stratum" and a job template as
\* params replaces the job template.
C16_RequestByStratumId ==
    (/\ ret.op = "process_message"
     /\ srvStream
     /\ cur.method = "job")
    => IF cur.id = <<83, 116, 114, 97, 116, 117, 109>>
       THEN ret = RetOk("process_message", "job") /\ srvJob = cur.job
       ELSE ret = RetErr("process_message", 0 - 32600, "Invalid Response")

C16_Witness ==
    /\ ret = RetOk("process_message", "job")
    /\ srvStream
    /\ cur.method = "job"
    /\ cur.id = <<83, 116, 114, 97, 116, 117, 109>>
    /\ srvJob = cur.job
    /\ srvJob # NoJob

\* The last call of Worker::process_messages read a request of the method
\* with params of the given kind.
CallWas(method, params) ==
    /\ wret.input.kind = "msg"
    /\ wret.input.req.json
    /\ wret.input.req.method = method
    /\ wret.input.req.params = params

\* Every character of name is in chars, and there are 1 to max of them.
NameOf(name, chars, max) ==
    /\ Len(name) \in 1..max
    /\ \A k \in 1..Len(name) : name[k] \in chars

UsernameChars == (97..122) \cup (65..90) \cup (48..57) \cup {95}

WorkernameChars == UsernameChars \cup {46, 45}

\* The position of the first '.' of a string, 0 when it has none.
FirstDot(l) ==
    IF \E k \in 1..Len(l) : l[k] = 46
    THEN CHOOSE k \in 1..Len(l) : l[k] = 46 /\ \A m \in 1..(k - 1) : l[m] # 46
    ELSE 0

\* l is username '.' workername with both parts within their constraints.
FullnameForm(l) ==
    /\ FirstDot(l) > 0
    /\ NameOf(SubSeq(l, 1, FirstDot(l) - 1), UsernameChars, 20)
    /\ NameOf(SubSeq(l, FirstDot(l) + 1, Len(l)), WorkernameChars, 18)

C18_StoredLoginsValid ==
    /\ \A i \in 1..Len(workers) :
          workers[i].login.some => FullnameForm(workers[i].login.login)
    /\ CallWas("login", "ok") =>
          LET l == wret.input.req.login
          IN  (~FullnameForm(l) /\ ~(FirstDot(l) = 0 /\ NameOf(l, UsernameChars, 20)))
              => wret.ret = "Err(invalid worker name)"

\* C19: a 'login' that fails the name validation returns an error and
\* changes nothing: the stored login, the error flag, the authenticated
\* flag and the replies sent are as before, and the login parameters are
\* as they were received.
C19_RejectedLoginNoEffect ==
    CallWas("login", "ok") =>
        LET l == wret.input.req.login
        IN  /\ l = <<97, 108, 33>> => wret.ret = "Err(invalid worker name)"
            /\ wret.ret = "Err(invalid worker name)"
               => /\ workers[wret.i] = wret.before
                  /\ validate_fullname(l).login = l

C19_Witness ==
    /\ CallWas("login", "ok")
    /\ wret.input.req.login = <<97, 108, 33>>
    /\ wret.ret = "Err(invalid worker name)"
    /\ wret.before.login.some
    /\ Len(wret.before.out) = 1

\* C20: a 'submit' whose payload parses is appended to the session's
\* queue; a 'submit' whose payload does not parse, or that has no params,
\* is dropped: the call returns success and the queue and the error flag
\* are as before.
C20_BadSubmitDropped ==
    /\ CallWas("submit", "ok")
       => /\ wret.ret = "Ok"
          /\ workers[wret.i] =
                [wret.before EXCEPT !.shares = Append(@, wret.input.req.share)]
    /\ (CallWas("submit", "bad") \/ CallWas("submit", "none"))
       => /\ wret.ret = "Ok"
          /\ workers[wret.i] = wret.before

\* C21: a worker request whose method is none of login, getjobtemplate,
\* submit, status, keepalive sets the session's error flag and returns the
\* unknown-method error; the stored login, the queue, the counters,
\* needs_job and everything else of the session are as before.
C21_UnknownMethod ==
    (/\ wret.input.kind = "msg"
     /\ wret.input.req.json
     /\ wret.input.req.method \notin
           {"login", "getjobtemplate", "submit", "status", "keepalive"})
    => /\ wret.ret = "Err(Unknown request)"
       /\ workers[wret.i].error
       /\ workers[wret.i] = [wret.before EXCEPT !.error = TRUE]

C21_Witness ==
    /\ CallWas("foo", "none")
    /\ wret.ret = "Err(Unknown request)"
    /\ ~wret.before.error
    /\ wret.before.login.some
    /\ Len(wret.before.shares) = 1
    /\ workers[wret.i].error

\* C22: when the read finds no complete message, Worker::process_messages
\* returns success and leaves the session as it was, replies included;
\* Server::process_message returns "None" and leaves the error flag, the
\* job template, the pool status, the requests sent, the registry and the
\* sockets as they were.
C22_NoMessageNoEffect ==
    /\ [](wret.ret # "none" /\ wret.input.kind = "none"
          => /\ wret.ret = "Ok"
             /\ workers[wret.i] = wret.before)
    /\ [][(/\ srvStream
           /\ sockIn.up = <<>>
           /\ ret' # ret
           /\ ret'.op = "process_message"
           /\ ret'.ok)
          => /\ ret' = RetOk("process_message", "None")
             /\ UNCHANGED <<srvStream, srvError, srvJob, srvStatus, upOut,
                            produced, workers, sockIn, hist, lock>>]_vars

C22_Witness ==
    /\ wret.input.kind = "none"
    /\ wret.ret = "Ok"
    /\ Len(wret.before.shares) = 1
    /\ workers[wret.i] = wret.before
    /\ sockIn.down[wret.before.id] = <<>>
    /\ ret = RetOk("process_message", "None")
    /\ srvStream
    /\ srvJob # NoJob
    /\ sockIn.up = <<>>

\* q2 is q with one message written behind the unread ones.
Grown(q, q2) ==
    /\ Len(q2) = Len(q) + 1
    /\ SubSeq(q2, 1, Len(q)) = q

\* C23: a call of Worker::process_messages or of Server::process_message
\* takes at most one message from its socket, the oldest one, and
\* dispatches it once; the messages behind it stay unread, in their order,
\* for later calls.
C23_OneMessagePerCall ==
    [][/\ \A i \in 1..Len(workers) :
            LET id == workers[i].id
                q  == sockIn.down[id]
                q2 == sockIn'.down[id]
            IN  \/ q2 = q
                \/ Grown(q, q2)
                \/ /\ q # <<>>
                   /\ q2 = Tail(q)
                   /\ wret'.i = i
                   /\ wret'.before = workers[i]
                   /\ wret'.input = [kind |-> "msg", req |-> Head(q)]
                   /\ Head(q).method = "submit"
                      => workers'[i].shares = Append(workers[i].shares, Head(q).share)
                   /\ Head(q).method = "foo"
                      => workers'[i] = [workers[i] EXCEPT !.error = TRUE]
       /\ LET q  == sockIn.up
              q2 == sockIn'.up
          IN  \/ q2 = q
              \/ Grown(q, q2)
              \/ /\ q2 = <<>>
                 /\ ret'.op = "connect"
              \/ /\ q # <<>>
                 /\ q2 = Tail(q)
                 /\ ret'.op = "process_message"
                 /\ cur' = Head(q)
                 /\ Head(q).method = "job" => srvJob' = Head(q).job
                 /\ Head(q).method # "job" => srvJob' = srvJob]_vars

C23_Witness ==
    /\ wret.input.kind = "msg"
    /\ wret.input.req.method = "submit"
    /\ workers[wret.i].shares = <<wret.input.req.share>>
    /\ Len(sockIn.down[wret.before.id]) = 1
    /\ sockIn.down[wret.before.id][1].method = "foo"
    /\ cur.method = "job"
    /\ srvJob = cur.job
    /\ Len(sockIn.up) = 1
    /\ sockIn.up[1].method = "keepalive"

\* C24: get_shares on a non-empty queue returns all pending submissions in
\* the order they were enqueued and leaves the queue empty; on an empty
\* queue it returns none; the submissions a session has enqueued are, in
\* order, those its get_shares calls have returned followed by those still
\* in its queue, so that none is lost and none is returned twice.
C24_QueueDrained ==
    /\ wret.input.kind = "get_shares"
       => IF wret.before.shares # <<>>
          THEN /\ wret.ret = "Ok(Some)"
               /\ wret.shares = wret.before.shares
               /\ workers[wret.i] = [wret.before EXCEPT !.shares = <<>>]
          ELSE /\ wret.ret = "Ok(None)"
               /\ wret.shares = <<>>
               /\ workers[wret.i] = wret.before
    /\ \A i \in 1..Len(workers) :
          hist[workers[i].id].enq = hist[workers[i].id].got \o workers[i].shares

C24_Witness ==
    /\ wret.input.kind = "get_shares"
    /\ Len(wret.shares) = 2
    /\ wret.shares[1] # wret.shares[2]
    /\ hist[wret.before.id].enq = wret.shares
    /\ workers[wret.i].shares = <<>>
    /\ Len(workers) = 2
    /\ Len(workers[3 - wret.i].shares) = 1
    /\ Len(hist[workers[3 - wret.i].id].got) = 1

\* s is a prefix, a '-' and a decimal number.
HasIdShape(s) ==
    \E k \in 1..(Len(s) - 1) :
        /\ s[k] = 45
        /\ \A m \in (k + 1)..Len(s) : s[m] \in 48..57

\* s is a decimal number of 1 to 3 digits and at most 255.
IsOctet(s) ==
    /\ Len(s) \in 1..3
    /\ \A m \in 1..Len(s) : s[m] \in 48..57
    /\ IntOfNum([m \in 1..Len(s) |-> s[m] - 48]) <= 255

\* s is a.b.c.d with four octets.
IsQuad(s) ==
    LET parts == Split(s, 46)
    IN  Len(parts) = 4 /\ \A m \in 1..4 : IsOctet(parts[m])

\* s is a dotted quad, with a ':port' behind it or without one.
IsAddr(s) ==
    \/ IsQuad(s)
    \/ \E k \in 1..(Len(s) - 1) :
          /\ s[k] = 58
          /\ IsQuad(SubSeq(s, 1, k - 1))
          /\ \A m \in (k + 1)..Len(s) : s[m] \in 48..57

\* The construction of the share has been run.
Constructed == built.step \notin {"none", "args"}

\* C25: Share::new on a pool id that is not prefix '-' number, or on a
\* worker address that is not a dotted quad with or without ':port',
\* returns an error value and does not crash its caller.
C25_ErrorValues ==
    (Constructed /\ (~HasIdShape(built.args.server_id) \/ ~IsAddr(built.args.worker_addr)))
    => built.step = "failed"

\* The octets a, b, c, d of an address a.b.c.d with or without ':port'.
OctetsOf(s) ==
    LET quad  == Split(Split(s, 58)[1], 46)
    IN  [m \in 1..4 |-> IntOfNum(DigitsOf(quad[m]))]

\* C26: for every worker address a.b.c.d with octets in 0..255, given with
\* a ':port' suffix or without one, the ip of the constructed share is
\* d*2^24 + c*2^16 + b*2^8 + a: its bytes from the most significant one
\* are d, c, b, a.
C26_IpReversed ==
    (/\ Constructed
     /\ IsAddr(built.args.worker_addr)
     /\ get_server_id(built.args.server_id).ok
     /\ get_fullname(built.args.fullname).ok)
    => /\ built.step = "built"
       /\ LET o == OctetsOf(built.args.worker_addr)
          IN  built.share.share.ip = <<o[4], o[3], o[2], o[1]>>

\* C27: the full-name buffer of a constructed share has exactly
\* FULLNAME_LIMIT characters: a shorter name is kept and padded with NUL, a
\* name of that many characters is kept as it is, and a longer name makes
\* the construction fail with an error, without a truncated name.
C27_FullnameWidth ==
    (/\ Constructed
     /\ get_server_id(built.args.server_id).ok
     /\ get_inet_addr(built.args.worker_addr).ok)
    => LET name == built.args.fullname
           n    == CharCount(name)
       IN  /\ built.step = "built"
              => CharCount(built.share.share.fullname) = FULLNAME_LIMIT
           /\ n < FULLNAME_LIMIT
              => /\ built.step = "built"
                 /\ built.share.share.fullname = name \o Repeat(0, FULLNAME_LIMIT - n)
           /\ n = FULLNAME_LIMIT
              => /\ built.step = "built"
                 /\ built.share.share.fullname = name
           /\ n > FULLNAME_LIMIT
              => built.step = "failed"

\* C28: decoding the bytes of a constructed share gives the share back
\* field by field, the full-name buffer with its padding included, and
\* encoding what was decoded gives the same bytes.
C28_EncodeDecodeInverse ==
    built.step = "decoded"
    => /\ built.decoded.ok
       /\ built.decoded.share = built.share.share
       /\ serialize(built.decoded.share) = built.bytes
       /\ Len(built.bytes) = HeaderLen + Len(built.share.share.fullname)

C28_Witness ==
    /\ built.step = "decoded"
    /\ built.decoded = built.share
    /\ built.share.share.height = 0 - 1
    /\ built.share.share.ip = <<7, 128, 0, 255>>
    /\ Len(built.share.share.fullname) = FULLNAME_LIMIT + 1
    /\ Len(built.bytes) = HeaderLen + FULLNAME_LIMIT + 1
    /\ SubSeq(built.bytes, 45, 48) = <<255, 255, 255, 255>>

\* The frame is a 'job' request or a 'getjobtemplate' response with a
\* result.
CarriesJob(f) ==
    \/ f.id = StratumId /\ f.method = "job"
    \/ f.id # StratumId /\ f.method = "getjobtemplate" /\ f.hasResult

\* C29: the job template of the session is the payload of the last 'job'
\* request or successful 'getjobtemplate' response it processed, the empty
\* template before the first: a call that processed one of the two leaves
\* its payload as the template, and no other step, whatever message it
\* reads, changes the template.
C29_JobFromLastMessage ==
    /\ [](ret.op = "process_message" /\ pc = "idle" /\ CarriesJob(cur)
          => ret.ok /\ srvJob = cur.job)
    /\ [][srvJob' # srvJob
          => /\ ret'.op = "process_message"
             /\ CarriesJob(cur')
             /\ srvJob' = cur'.job]_vars

C29_Witness ==
    /\ ret.op = "process_message"
    /\ ~ret.ok
    /\ cur.method = "submit"
    /\ nSubmit > 0
    /\ srvJob.height = 1001
    /\ srvError

\* The last call of Server::process_message read a response to a 'login' or
\* 'getjobtemplate' request of the pool.
AnsweredPool(f) ==
    /\ ret.op = "process_message"
    /\ srvStream
    /\ f.id # StratumId
    /\ f.method \in {"login", "getjobtemplate"}

\* C30: a 'getjobtemplate' or 'login' response without a result sets the
\* error flag and is returned as the RPC error it carries, code and message
\* as received; one with a result returns success and leaves the error
\* flag as it was.
C30_EmbeddedError ==
    /\ [](AnsweredPool(cur) /\ ~cur.hasResult /\ cur.hasError
          => /\ srvError
             /\ ret = RetErr("process_message", cur.code, cur.message))
    /\ [](AnsweredPool(cur) /\ cur.hasResult
          => ret = RetOk("process_message", cur.method))
    /\ [][(/\ ret'.op = "process_message"
           /\ srvStream
           /\ cur'.id # StratumId
           /\ cur'.method \in {"login", "getjobtemplate"}
           /\ cur'.hasResult)
          => srvError' = srvError]_vars

C30_Witness ==
    /\ AnsweredPool(cur)
    /\ cur.method = "login"
    /\ ~cur.hasResult
    /\ cur.message = "login first"
    /\ ret = RetErr("process_message", 0 - 32500, "login first")
    /\ srvError
    /\ srvJob # NoJob

\* An upstream frame the session has no handler for: a request whose method
\* is not 'job', or a response whose method is none of the five served.
UnknownUpstreamRequest(f) == f.id = StratumId /\ f.method # "job"

UnknownUpstreamResponse(f) ==
    /\ f # NoFrame
    /\ f.id # StratumId
    /\ f.method \notin {"getjobtemplate", "login", "status", "submit", "keepalive"}

\* The cumulative and per-block counters of every worker of the registry.
Counters == [i \in DOMAIN workers |-> <<workers[i].status, workers[i].block_status>>]

\* C31: process_message answers an upstream request whose method is not
\* 'job' with error code -32601 and an upstream response whose method is
\* none of getjobtemplate, login, status, submit, keepalive with error code
\* -32600; the call that does so leaves the job template, the cached pool
\* status, the error flag and every worker's counters as they were.
C31_UnknownUpstreamFrame ==
    /\ [](ret.op = "process_message" /\ pc = "idle" /\ UnknownUpstreamRequest(cur)
             => ~ret.ok /\ ret.code = 0 - 32601)
    /\ [](ret.op = "process_message" /\ pc = "idle" /\ UnknownUpstreamResponse(cur)
             => ~ret.ok /\ ret.code = 0 - 32600)
    /\ [][ /\ pc = "idle" /\ pc' = "idle"
           /\ ret'.op = "process_message"
           /\ (ret' # ret \/ cur' # cur)
           /\ (UnknownUpstreamRequest(cur') \/ UnknownUpstreamResponse(cur'))
           => /\ srvJob' = srvJob
              /\ srvStatus' = srvStatus
              /\ srvError' = srvError
              /\ Counters' = Counters ]_vars

\* An unknown request has been refused while a job template is held, the
\* error flag is set and a worker has been credited.
C31_Witness ==
    /\ ret.op = "process_message" /\ pc = "idle"
    /\ UnknownUpstreamRequest(cur)
    /\ ret.code = 0 - 32601
    /\ srvJob # NoJob
    /\ \E i \in DOMAIN workers : workers[i].status.accepted > 0

\* The last call on a worker session was process_messages on a request of
\* the given method.
LastRequest(method) ==
    /\ wret # NoCall
    /\ wret.input.kind = "msg"
    /\ wret.input.req.json
    /\ wret.input.req.method = method

\* The last call on a worker session was send_job.
LastSendJob == wret # NoCall /\ wret.input.kind = "send_job"

\* C32: a 'getjobtemplate' request of a worker sets needs_job to true and
\* writes no reply to the worker; needs_job then stays true through every
\* other request until send_job is called for that worker, and send_job
\* sets it to false.
C32_NeedsJobUntilSent ==
    /\ [](LastRequest("getjobtemplate")
             => /\ workers[wret.i].needs_job
                /\ workers[wret.i].out = wret.before.out
                /\ wret.ret = "Ok")
    /\ [](LastSendJob => ~workers[wret.i].needs_job)
    /\ [][\A i \in 1..Len(workers) :
             workers[i].needs_job /\ ~workers'[i].needs_job
             => /\ wret'.input.kind = "send_job"
                /\ wret'.i = i]_vars

\* A worker that had been sent a job asks for the next one and has not
\* been sent it yet.
C32_Witness ==
    /\ LastRequest("getjobtemplate")
    /\ ~wret.before.needs_job
    /\ Len(JobsSent(wret.before)) > 0
    /\ workers[wret.i].needs_job

\* C33: the job send_job writes to a worker is the job handed in with the
\* difficulty replaced by that worker's own status.difficulty and every
\* other field unchanged, whatever difficulty earlier send_job calls for
\* other workers left in the shared job.
C33_OwnDifficulty ==
    LastSendJob
    => LET w    == workers[wret.i]
           sent == w.out[Len(w.out)]
       IN  /\ sent.method = "getjobtemplate"
           /\ sent.job.difficulty = wret.before.status.difficulty
           /\ sent.job.height = wret.input.job.height
           /\ sent.job.job_id = wret.input.job.job_id

\* Two workers of different difficulties have been sent the same job, the
\* second from the job as the first call left it.
C33_Witness ==
    /\ LastSendJob
    /\ Len(workers) = 2
    /\ \A i \in 1..2 : Len(JobsSent(workers[i])) = 1
    /\ JobsSent(workers[1])[1].job.job_id = JobsSent(workers[2])[1].job.job_id
    /\ JobsSent(workers[1])[1].job.difficulty # JobsSent(workers[2])[1].job.difficulty
    /\ wret.input.job.difficulty = JobsSent(workers[3 - wret.i])[1].job.difficulty
    /\ wret.input.job.difficulty # wret.before.status.difficulty

\* C34: a worker session's authenticated flag is true once it has
\* processed a successful 'login' request (its login is stored) and false
\* as long as it has not.
C34_AuthenticatedAfterLogin ==
    \A i \in 1..Len(workers) : workers[i].authenticated = workers[i].login.some

\* C35: once the error flag of a worker session is set, no operation of
\* the session clears it: the flag of a session that has it set is set
\* after every step.
C35_ErroredIsTerminal ==
    [][\A i \in 1..Len(workers) :
          workers[i].error => i <= Len(workers') /\ workers'[i].error]_vars

\* A session in error has processed a login that was accepted and is in
\* error still.
C35_Witness ==
    /\ LastRequest("login")
    /\ wret.ret = "Ok"
    /\ wret.before.error
    /\ workers[wret.i].login.some
    /\ workers[wret.i].error

\* The sum of the three outcome counters of a cumulative status.
Credited(w) == w.status.accepted + w.status.rejected + w.status.stale

\* What the 'submit' branch has no business with in a worker session.
Untouched(w) ==
    <<w.block_status, w.status.difficulty, w.status.height, w.login, w.shares,
      w.needs_job>>

\* The worker of the given id in the registry after a step, if it is there.
Still(id) == \E j \in 1..Len(workers') : workers'[j].id = id

\* No counter of a worker that stays in the registry decreases in a step.
CountersGrow ==
    \A i \in 1..Len(workers) :
       Still(workers[i].id)
       => LET w == ById(workers', workers[i].id)
          IN  /\ w.status.accepted >= workers[i].status.accepted
              /\ w.status.rejected >= workers[i].status.rejected
              /\ w.status.stale >= workers[i].status.stale

\* A step of the 'submit' branch leaves the rest of every worker alone.
SubmitLeavesRest ==
    pc \in {"decode", "credit", "ack", "share", "publish"}
    => /\ Len(workers') = Len(workers)
       /\ \A i \in 1..Len(workers) : Untouched(workers'[i]) = Untouched(workers[i])

C37_LockReleased ==
    /\ [](pc \in {"idle", "done", "panicked"} => lock # "server")
    /\ (lock = "server") ~> (lock = "pool")

\* "None.__default__"
Placeholder == <<78, 111, 110, 101, 46>> \o DefaultWorkername

\* The last call on a worker session was get_shares.
LastGetShares == wret # NoCall /\ wret.input.kind = "get_shares"

\* C38: a worker session that has not logged in enqueues a 'submit'
\* request all the same; get_shares returns what was queued; and the share
\* built when the response for such a worker is credited carries the full
\* name "None.__default__" (filled up to the width of the field).
C38_SubmitBeforeLogin ==
    /\ (LastRequest("submit") /\ wret.input.req.params = "ok" /\ ~wret.before.login.some
          => /\ wret.ret = "Ok"
             /\ workers[wret.i].shares = Append(wret.before.shares, wret.input.req.share))
    /\ (LastGetShares /\ wret.before.shares # <<>>
          => /\ wret.ret = "Ok(Some)"
             /\ wret.shares = wret.before.shares)
    /\ (pc \in {"publish", "done"} /\ inflight.ok /\ ~workers[loc.w_id + 1].login.some
          => inflight.share.fullname
                = Placeholder \o Repeat(0, FULLNAME_LIMIT - Len(Placeholder)))

\* A worker that never logged in has had its submission queued and handed
\* over, and a response for it has been credited and its share published.
C38_Witness ==
    /\ pc = "done"
    /\ inflight.ok
    /\ LET w == workers[loc.w_id + 1]
       IN  /\ ~w.login.some
           /\ hist[w.id].enq = <<CreditedSolution>>
           /\ hist[w.id].got = <<CreditedSolution>>
           /\ Credited(w) = 1

\* A step of the upstream session that clears its error flag is a connect()
\* that opened a new socket.
ClearedByNewSocket ==
    (srvError /\ ~srvError')
    => /\ ret' = RetOk("connect", "")
       /\ srvStream'
       /\ sockIn'.up = <<>>

\* The other calls of the session leave a set error flag set, and the
\* senders send on the socket of a session in error as on any other.
OthersKeepError ==
    (srvError /\ ret'.op \in {"process_message", "submit_share", "request_status",
                              "send_keepalive"})
    => /\ srvError'
       /\ (srvStream /\ ret'.ok /\ ret'.op # "process_message")
             => Len(upOut') = Len(upOut) + 1

\* connect() on a session in error opens a new socket and sends 'login'
\* and 'getjobtemplate' on it.
ReconnectsInFull ==
    (srvError /\ ret'.op = "connect")
    => /\ srvStream'
       /\ sockIn'.up = <<>>
       /\ upOut' = <<Sent("login", PoolId, 0, NoSolution),
                     Sent("getjobtemplate", PoolId, 0, NoSolution)>>

\* connect() on a session in error never returns by the no-op path: it
\* tries to open a new socket; if that fails the session is as it was, and
\* otherwise the new socket replaces the old one and 'login' and
\* 'getjobtemplate' are sent on it as far as the sends succeed.
ReconnectsUnlessFailed ==
    (srvError /\ ret'.op = "connect")
    => LET login == Sent("login", PoolId, 0, NoSolution)
           job   == Sent("getjobtemplate", PoolId, 0, NoSolution)
       IN  \/ /\ ret' = RetErr("connect", 0, "connect")
              /\ srvError'
              /\ UNCHANGED <<srvStream, upOut, sockIn>>
           \/ /\ srvStream'
              /\ sockIn'.up = <<>>
              /\ \/ ret' = RetOk("connect", "") /\ ~srvError' /\ upOut' = <<login, job>>
                 \/ ret' = RetErr("connect", 0, "send") /\ srvError' /\ upOut' \in {<<>>, <<login>>}

\* C39 as stated: once the error flag of the upstream session is set only
\* a connect() that opens a new socket clears it, no other call clears it,
\* and the next connect() opens a new socket in place of the old one and
\* sends 'login' and 'getjobtemplate' again.
C39_ReconnectAlwaysOpens ==
    /\ [][ClearedByNewSocket]_vars
    /\ [][OthersKeepError]_vars
    /\ [][ReconnectsInFull]_vars

\* C39, amended: once the error flag of the upstream session is set only a
\* connect() that opens a new socket clears it, no other call clears it,
\* and the next connect() does not take the no-op path: it opens a new
\* socket and sends 'login' and 'getjobtemplate' again unless the open or
\* a send fails, in which case the flag stays set.
C39_ReconnectUnlessFailed ==
    /\ [][ClearedByNewSocket]_vars
    /\ [][OthersKeepError]_vars
    /\ [][ReconnectsUnlessFailed]_vars

\* A session in error that had a socket and had sent a request on it has
\* been reconnected: the error is gone and the new socket has seen 'login'
\* and 'getjobtemplate' only.
C39_Witness ==
    /\ ret = RetOk("connect", "")
    /\ ~srvError
    /\ srvStream
    /\ Len(upOut) = 2
    /\ cur # NoFrame
    /\ cur.method = "login"
    /\ ~cur.hasResult

\* Building the share of a response for a worker that has logged in does
\* not end in a panic.
ShareBuilt ==
    (pc = "share" /\ workers[loc.w_id + 1].login.some) => pc' # "panicked"

\* C40: every login a worker session has accepted and stored is at most 46
\* characters long, and building the Share for a submit response of a
\* logged-in worker never fails on the width of the full name: the call
\* does not crash while it holds the registry lock.
C40_LoginsFitShare ==
    /\ [](\A i \in 1..Len(workers) :
             workers[i].login.some
             => CharCount(workers[i].login.login) <= FULLNAME_LIMIT)
    /\ [][ShareBuilt]_vars

=============================================================================
